---- MODULE Spec2Model ----
(***************************************************************************)
(* InnerFS: the metadata index (metadata_db.rs), the session cache         *)
(* (storage_interface.rs), the local-directory object backend              *)
(* (obj_storage/fs_object_storage.rs) and the filesystem service           *)
(* (sql_fs.rs), as one state machine.                                      *)
(*                                                                         *)
(* Strings are sequences of one-character strings, so that name            *)
(* validation, path building and path parsing are computed.  A content is  *)
(* a sequence of bytes.  The blob directory of the local backend is a map  *)
(* from key to content.                                                    *)
(***************************************************************************)
EXTENDS Integers, Sequences, FiniteSets, TLC

\* ------------------------------------------------------------------ bounds
\* ids of files, length of a content
MaxId == 4
MaxLen == 2
MaxBuffer == 5
MaxOffset == 2
\* calls that change the program's data: of mkdir, of mknod, of copy_file, of
\* the calls that change or remove an existing file (unlink, rmdir, rename,
\* move_file, setattr), and of open, read, write and release
MaxMkdir == 2
MaxMknod == 1
MaxCopyFile == 1
MaxChange == 1
MaxRmdir == 2
MaxOpen == 2
MaxRead == 1
MaxWrite == 2
MaxRelease == 2
MaxShort == 3
SmallDir == 9
NearLimit == 12
NReplicas == 2
MaxCalls == 2

\* --------------------------------------------------------------- constants
ROOT_DIRECTORY_ID == 1
FILE_KIND_REGULAR == 0
FILE_KIND_DIRECTORY == 1
O_RDONLY == 0
O_WRONLY == 1
O_RDWR == 2
O_EXCL == 128
O_APPEND == 1024
BLOCK_SIZE == 65536
HashPrefixLen == 32
MaxNameLen == 255
ReaddirLimit == 1024
SALT_LEN == 32
NONCE_LEN == 12
AEAD_LEN == 10
KeyTextLen == 100
Sha512TextLen == 128

\* ----------------------------------------------------------------- strings
SLASH == <<"/">>
DOT == <<".">>
DOTDOT == <<".", ".">>
NameA == <<"a">>
NameB == <<"b">>
Names == {NameA, NameB}
DotNames == {DOT, DOTDOT}
EMPTY == << >>

Contains(s, c) == \E i \in 1..Len(s) : s[i] = c

\* str::len counts bytes: WIDE stands for a character of two bytes in UTF-8
WIDE == "w"
ByteLen(s) == Len(s) + Cardinality({i \in 1..Len(s) : s[i] = WIDE})

\* a & b on non-negative integers
RECURSIVE BitAnd(_, _)
BitAnd(a, b) ==
    IF a = 0 \/ b = 0 THEN 0
    ELSE (a % 2) * (b % 2) + 2 * BitAnd(a \div 2, b \div 2)

Min(a, b) == IF a < b THEN a ELSE b

\* str.trim_start_matches('/')
RECURSIVE trim_start_matches(_)
trim_start_matches(s) ==
    IF Len(s) > 0 /\ s[1] = "/" THEN trim_start_matches(Tail(s)) ELSE s

\* the pieces of s between '/' characters, empty pieces included
RECURSIVE SplitSlash(_, _, _)
SplitSlash(s, cur, acc) ==
    IF Len(s) = 0 THEN Append(acc, cur)
    ELSE IF s[1] = "/" THEN SplitSlash(Tail(s), EMPTY, Append(acc, cur))
    ELSE SplitSlash(Tail(s), Append(cur, s[1]), acc)

\* std::path::Path::iter on Unix: a leading '/' is the component "/", empty
\* pieces and non-leading "." pieces are skipped, ".." is kept.
PathComponents(s) ==
    LET pieces == SplitSlash(s, EMPTY, << >>)
        abs == Len(s) > 0 /\ s[1] = "/"
        keep(i) == /\ pieces[i] # EMPTY
                   /\ (pieces[i] = DOT => (i = 1 /\ ~abs))
        idx == {i \in 1..Len(pieces) : keep(i)}
        RECURSIVE Collect(_, _)
        Collect(i, acc) ==
            IF i > Len(pieces) THEN acc
            ELSE Collect(i + 1, IF i \in idx THEN Append(acc, pieces[i]) ELSE acc)
        normal == Collect(1, << >>)
    IN  IF abs THEN <<SLASH>> \o normal ELSE normal

\* a key of the blob directory that the operating system does not resolve to
\* a plain file name: one of its components is "." or ".."
DotKey(key) ==
    LET pieces == SplitSlash(key, EMPTY, << >>)
    IN  \E i \in 1..Len(pieces) : pieces[i] \in DotNames

\* hex::encode(hmac_sha512::Hash::hash(content)): a non-empty string that is
\* different for different contents
HexByte(b) == IF b = 0 THEN "0" ELSE IF b = 1 THEN "1" ELSE "2"
Sha512Hex(content) == <<"#">> \o [i \in 1..Len(content) |-> HexByte(content[i])]

\* sequences over S with length at most n
SeqUpTo(S, n) == UNION {[1..k -> S] : k \in 0..n}

\* all orders in which a set can be iterated
Orders(S) ==
    {s \in [1..Cardinality(S) -> S] : \A i, j \in 1..Cardinality(S) : s[i] = s[j] => i = j}

RemoveAt(s, i) == SubSeq(s, 1, i - 1) \o SubSeq(s, i + 1, Len(s))

\* f without the key k
Drop(f, k) == [x \in DOMAIN f \ {k} |-> f[x]]

\* -------------------------------------------------------- Metadata Index
\* A state S is the record of the program's data: the tables files and
\* directory_entry (rows in insertion order) with the id counter of files,
\* and the session cache, pending_remove set and blob directory.

NewFileRow(kind, name) ==
    [version |-> 1, kind |-> kind, name |-> name, size |-> 0, sha512 |-> EMPTY]

HasFile(S, id) == id \in DOMAIN S.files

\* INSERT INTO files; the new id is S.next_id
add_file(S, file) ==
    [S EXCEPT !.files = (S.next_id :> [file EXCEPT !.version = 1]) @@ S.files,
              !.next_id = S.next_id + 1]

\* UPDATE files SET version = version + 1 WHERE id = :id
BumpVersion(S, id) ==
    IF id \in DOMAIN S.files
    THEN [S EXCEPT !.files[id].version = S.files[id].version + 1]
    ELSE S

update_file(S, id, file) ==
    IF id \in DOMAIN S.files
    THEN [S EXCEPT !.files[id] = [file EXCEPT !.version = S.files[id].version + 1]]
    ELSE S

remove_file(S, id) ==
    [S EXCEPT !.files = Drop(S.files, id),
              !.dirent = SelectSeq(S.dirent,
                            LAMBDA e : e.entry_file_id # id /\ e.directory_file_id # id)]

\* position of the first row of directory_entry satisfying P, 0 when none
FirstRow(S, P(_)) ==
    LET idx == {i \in 1..Len(S.dirent) : P(S.dirent[i])}
    IN  IF idx = {} THEN 0 ELSE CHOOSE i \in idx : \A j \in idx : i <= j

\* the position of the row, 0 for None
find_directory_entry(S, directory_file_id, name) ==
    FirstRow(S, LAMBDA e : e.directory_file_id = directory_file_id /\ e.name = name)

\* the parent id, 0 for None
find_parent_directory(S, file_id) ==
    LET i == FirstRow(S, LAMBDA e : e.entry_file_id = file_id /\ e.name \notin DotNames)
    IN  IF i = 0 THEN 0 ELSE S.dirent[i].directory_file_id

remove_directory_entry(S, entry) ==
    [S EXCEPT !.dirent = SelectSeq(S.dirent, LAMBDA e : e # entry)]

\* the unique index of directory_entry on (directory_file_id, name)
UniqueViolation(S, entry, except) ==
    \E i \in 1..Len(S.dirent) :
        /\ S.dirent[i] # except
        /\ S.dirent[i].directory_file_id = entry.directory_file_id
        /\ S.dirent[i].name = entry.name

NoEntry == [directory_file_id |-> 0, entry_file_id |-> 0, name |-> EMPTY, kind |-> 0]

add_directory_entry(S, entry) ==
    IF UniqueViolation(S, entry, NoEntry)
    THEN [S |-> S, err |-> "EIO"]
    ELSE [S |-> BumpVersion([S EXCEPT !.dirent = Append(S.dirent, entry)],
                            entry.directory_file_id),
          err |-> "OK"]

\* prev is the row as it was read (the row with the id of entry)
update_directory_entry(S, prev, entry) ==
    IF (\E i \in 1..Len(S.dirent) : S.dirent[i] = prev) /\ UniqueViolation(S, entry, prev)
    THEN [S |-> S, err |-> "EIO"]
    ELSE [S |-> BumpVersion(
                  [S EXCEPT !.dirent = [i \in 1..Len(S.dirent) |->
                        IF S.dirent[i] = prev THEN entry ELSE S.dirent[i]]],
                  entry.directory_file_id),
          err |-> "OK"]

get_directory_entries(S, directory_file_id, limit, offset) ==
    LET rows == SelectSeq(S.dirent, LAMBDA e : e.directory_file_id = directory_file_id)
    IN  SubSeq(rows, offset + 1, Min(Len(rows), offset + limit))

\* the loop of get_file_path; it never ends when the parent links form a
\* cycle of two or more files, which is the case when fuel runs out.
RECURSIVE PathWalk(_, _, _, _)
PathWalk(S, current_file_id, path_components, fuel) ==
    IF fuel = 0 THEN [err |-> "HANG", comps |-> path_components]
    ELSE IF ~HasFile(S, current_file_id) THEN [err |-> "EIO", comps |-> path_components]
    ELSE LET file == S.files[current_file_id]
             parent == find_parent_directory(S, current_file_id)
         IN  IF file.name = SLASH THEN [err |-> "OK", comps |-> path_components]
             ELSE IF parent = 0 \/ parent = current_file_id
                  THEN [err |-> "OK", comps |-> Append(path_components, file.name)]
                  ELSE PathWalk(S, parent, Append(path_components, file.name), fuel - 1)

RECURSIVE JoinRev(_)
JoinRev(comps) ==
    IF Len(comps) = 0 THEN EMPTY
    ELSE JoinRev(Tail(comps)) \o SLASH \o comps[1]

get_file_path(S, file_id) ==
    LET w == PathWalk(S, file_id, << >>, Cardinality(DOMAIN S.files) + 1)
    IN  [err |-> w.err, path |-> JoinRev(w.comps)]

\* id of the file, 0 for None
RECURSIVE ResolveParts(_, _, _)
ResolveParts(S, current, parts) ==
    IF Len(parts) = 0 THEN (IF HasFile(S, current) THEN current ELSE 0)
    ELSE LET i == find_directory_entry(S, current, parts[1])
         IN  IF i = 0 THEN 0
             ELSE ResolveParts(S, S.dirent[i].entry_file_id, Tail(parts))

get_file_by_path(S, path) == ResolveParts(S, ROOT_DIRECTORY_ID, PathComponents(path))

get_file_by_sha512(S, sha512) ==
    \E id \in DOMAIN S.files : S.files[id].sha512 = sha512


\* -------------------------------------------------------------- ObjInfo
ObjInfo_new(file, full_path) == [full_path |-> full_path, sha512 |-> file.sha512]

\* StorageConfig::path_of
path_of(S, info) ==
    IF S.use_hash_as_filename
    THEN IF info.sha512 = EMPTY THEN <<"n", "u", "l", "l">>
         ELSE SubSeq(info.sha512, 1, Min(Len(info.sha512), HashPrefixLen))
                \o <<".", "d", "a", "t">>
    ELSE trim_start_matches(info.full_path)

\* ------------------------------------------- local-directory backend
\* the configured base directory is a fixed prefix of every key and is left out
FsPath(S, info) == path_of(S, info)

\* fs::read: fails on a missing file and on a directory
FsGet(S, info) ==
    LET path == FsPath(S, info)
    IN  IF path \in DOMAIN S.blobs /\ ~DotKey(path)
        THEN [err |-> "OK", data |-> S.blobs[path]]
        ELSE [err |-> "EIO", data |-> << >>]

\* fs::write: fails when the path names a directory
FsPut(S, info, content) ==
    LET path == FsPath(S, info)
    IN  IF path = EMPTY \/ DotKey(path)
        THEN [S |-> S, err |-> "EIO"]
        ELSE [S |-> [S EXCEPT !.blobs = (path :> content) @@ S.blobs], err |-> "OK"]

\* the closure that SqlFileSystem::cleanup hands to the backend
is_in_use(S, info, by_sha512) ==
    IF by_sha512 THEN get_file_by_sha512(S, info.sha512)
    ELSE get_file_by_path(S, info.full_path) # 0

FsRemove(S, info) ==
    LET path == FsPath(S, info)
        test == S.use_hash_as_filename
    IN  IF is_in_use(S, info, test) THEN [S |-> S, err |-> "OK"]
        ELSE IF path \in DOMAIN S.blobs /\ ~DotKey(path)
             THEN [S |-> [S EXCEPT !.blobs = Drop(S.blobs, path)], err |-> "OK"]
             ELSE [S |-> S, err |-> "EIO"]

\* dir_there: whether fs::metadata finds a directory behind a key that
\* ends in "." or ".." (it depends on which directories the blob store has)
FsRename(S, prev_info, new_info, dir_there) ==
    LET prev_path == FsPath(S, prev_info)
        new_path == FsPath(S, new_info)
        prev_exists == IF DotKey(prev_path) \/ prev_path = EMPTY THEN dir_there
                       ELSE prev_path \in DOMAIN S.blobs
    IN  IF prev_path = new_path THEN [S |-> S, err |-> "OK"]
        ELSE IF ~prev_exists THEN [S |-> S, err |-> "OK"]
        ELSE IF DotKey(prev_path) \/ DotKey(new_path) \/ prev_path = EMPTY \/ new_path = EMPTY
             THEN [S |-> S, err |-> "EIO"]
        ELSE [S |-> [S EXCEPT !.blobs =
                        (new_path :> S.blobs[prev_path]) @@ Drop(S.blobs, prev_path)],
              err |-> "OK"]

\* ---------------------------------------------------- encryption wrapper
\* hex::encode and hex::decode; a byte is a number of 0..255
HexDigits == <<"0", "1", "2", "3", "4", "5", "6", "7", "8", "9", "a", "b", "c", "d", "e", "f">>
HexUpper == <<"0", "1", "2", "3", "4", "5", "6", "7", "8", "9", "A", "B", "C", "D", "E", "F">>

hex_encode(bytes) ==
    [i \in 1..(2 * Len(bytes)) |->
        IF i % 2 = 1 THEN HexDigits[(bytes[(i + 1) \div 2] \div 16) + 1]
        ELSE HexDigits[(bytes[i \div 2] % 16) + 1]]

IsHex(c) == \E v \in 1..16 : HexDigits[v] = c \/ HexUpper[v] = c
HexVal(c) == (CHOOSE v \in 1..16 : HexDigits[v] = c \/ HexUpper[v] = c) - 1

hex_decode(s) ==
    IF Len(s) % 2 # 0 \/ \E i \in 1..Len(s) : ~IsHex(s[i])
    THEN [err |-> "ERR", bytes |-> << >>]
    ELSE [err |-> "OK",
          bytes |-> [i \in 1..(Len(s) \div 2) |->
                        16 * HexVal(s[2 * i - 1]) + HexVal(s[2 * i])]]

\* str::split: the pieces between the occurrences of c
split(s, c) ==
    LET at == {i \in 1..Len(s) : s[i] = c}
        Nth(k) == CHOOSE i \in at : Cardinality({j \in at : j < i}) = k - 1
        First(k) == IF k = 1 THEN 1 ELSE Nth(k - 1) + 1
        Last(k) == IF k = Cardinality(at) + 1 THEN Len(s) ELSE Nth(k) - 1
    IN  [k \in 1..(Cardinality(at) + 1) |-> SubSeq(s, First(k), Last(k))]

NoKey == [salt |-> << >>, nonce |-> << >>, aead |-> << >>]

\* FileKey::serialize with the separator of another character
FileKey_serialize_dash(key) ==
    hex_encode(key.salt) \o <<"-">> \o hex_encode(key.nonce) \o <<"-">> \o key.aead

FileKey_serialize(key) ==
    hex_encode(key.salt) \o <<":">> \o hex_encode(key.nonce) \o <<":">> \o key.aead

FileKey_deserialize(s) ==
    LET parts == split(s, ":")
        Parsed(salt, nonce) ==
            IF salt.err # "OK" THEN [err |-> "ERR", key |-> NoKey]
            ELSE IF Len(salt.bytes) # SALT_LEN THEN [err |-> "ERR", key |-> NoKey]
            ELSE IF nonce.err # "OK" THEN [err |-> "ERR", key |-> NoKey]
            ELSE IF Len(nonce.bytes) # NONCE_LEN THEN [err |-> "ERR", key |-> NoKey]
            ELSE IF ByteLen(parts[3]) # AEAD_LEN THEN [err |-> "ERR", key |-> NoKey]
            ELSE [err |-> "OK",
                  key |-> [salt |-> salt.bytes, nonce |-> nonce.bytes, aead |-> parts[3]]]
    IN  IF ByteLen(s) # KeyTextLen THEN [err |-> "ERR", key |-> NoKey]
        ELSE IF Len(parts) # 3 THEN [err |-> "ERR", key |-> NoKey]
        ELSE Parsed(hex_decode(parts[1]), hex_decode(parts[2]))

\* A byte string that a wrapper handles is the record of how it was made:
\* the bytes msg as they are (enc "plain"), gzipped (enc "gzip"), or sealed by
\* AES-256-GCM (enc "aes") under the key derived from password and salt, with
\* the nonce and the associated data aad; tag is what the authentication tag
\* was computed over.
Plain(msg) ==
    [enc |-> "plain", msg |-> msg, password |-> "", salt |-> << >>, nonce |-> << >>,
     aad |-> << >>, tag |-> << >>]

\* the SHA-512 in hex in its full length
Sha512Text(content) ==
    Sha512Hex(content) \o [i \in 1..(Sha512TextLen - Len(Sha512Hex(content))) |-> "0"]

\* pbkdf2_hmac: different passwords or salts derive different keys
salt_password(password, salt) == [password |-> password, salt |-> salt]

\* Aes256Gcm::encrypt: the sealed bytes of the content
encrypt_internal(aes_key, key, content) ==
    [enc |-> "aes", msg |-> content.msg, password |-> aes_key.password,
     salt |-> aes_key.salt, nonce |-> key.nonce, aad |-> key.aead, tag |-> content.msg]

\* encrypt with the salt and the nonce that the random generator gave
encrypt(private_key, content, content_sha512, salt, nonce) ==
    LET file_key == [salt |-> salt, nonce |-> nonce,
                     aead |-> SubSeq(content_sha512, 1, AEAD_LEN)]
    IN  [key |-> file_key,
         ciphertext |-> encrypt_internal(salt_password(private_key, salt), file_key, content)]

\* a decryption that does not hand the associated data to the cipher
decrypt_internal_bare(aes_key, file_key, ciphertext) ==
    IF /\ ciphertext.enc = "aes"
       /\ ciphertext.password = aes_key.password /\ ciphertext.salt = aes_key.salt
       /\ ciphertext.nonce = file_key.nonce
       /\ ciphertext.tag = ciphertext.msg
    THEN [err |-> "OK", data |-> Plain(ciphertext.msg)]
    ELSE [err |-> "ERR", data |-> Plain(<< >>)]

\* Aes256Gcm::decrypt: the content when key, nonce and associated data are
\* those of the encryption and the tag is the one of the bytes
decrypt_internal(aes_key, file_key, ciphertext) ==
    IF /\ ciphertext.enc = "aes"
       /\ ciphertext.password = aes_key.password /\ ciphertext.salt = aes_key.salt
       /\ ciphertext.nonce = file_key.nonce
       /\ ciphertext.aad = file_key.aead
       /\ ciphertext.tag = ciphertext.msg
    THEN [err |-> "OK", data |-> Plain(ciphertext.msg)]
    ELSE [err |-> "ERR", data |-> Plain(<< >>)]

decrypt(private_key, file_key, ciphertext) ==
    decrypt_internal(salt_password(private_key, file_key.salt), file_key, ciphertext)

\* EncryptedObjectStorage::path: under the hash policy the last component of
\* the path is replaced by the nonce in hex and ".enc"
enc_path(S, key, original_path) ==
    LET slashes == {i \in 1..Len(original_path) : original_path[i] = "/"}
        last == IF slashes = {} THEN 0 ELSE CHOOSE i \in slashes : \A j \in slashes : j <= i
    IN  IF S.use_hash_as_filename
        THEN SubSeq(original_path, 1, last) \o hex_encode(key.nonce) \o <<".", "e", "n", "c">>
        ELSE original_path

\* ------------------------------------------------- compression wrapper
\* GzEncoder and GzDecoder: bytes that are not gzipped are not decoded
gzip(content) == [content EXCEPT !.enc = "gzip"]
gunzip(bytes) ==
    IF bytes.enc = "gzip" THEN [err |-> "OK", data |-> [bytes EXCEPT !.enc = "plain"]]
    ELSE [err |-> "EIO", data |-> Plain(<< >>)]

\* ------------------------------------------------------ stores in a chain
\* A call on a store is the record of the method op with its arguments: info
\* (prev_info of rename), new_info, content, the salt and nonce that the
\* random generator gives to an encryption, and io: whether the blob
\* directory of the store fails this call with an error of the operating
\* system.  A call gives the store T after it, the error, the info as the
\* call left it, and the data of a get.
IoError(id) == IF id = 0 THEN "EIO0" ELSE IF id = 1 THEN "EIO1" ELSE "EIO2"

\* fs::read_dir and fs::remove_file on every entry of the blob directory
FsNuke(S) == [S |-> [S EXCEPT !.blobs = << >>], err |-> "OK"]

\* the methods of FsObjectStorage on the blob directory of the store T
Fs_call(S, T, call) ==
    LET B == [S EXCEPT !.blobs = T.blobs]
        Res(r) == [T |-> [T EXCEPT !.blobs = r.S.blobs], err |-> r.err, info |-> call.info,
                   data |-> Plain(<< >>)]
        Got(r) == [T |-> T, err |-> r.err, info |-> call.info,
                   data |-> IF r.err = "OK" THEN r.data ELSE Plain(<< >>)]
    IN  IF call.io
        THEN [T |-> T, err |-> IoError(T.id), info |-> call.info, data |-> Plain(<< >>)]
        ELSE IF call.op = "get" THEN Got(FsGet(B, call.info))
        ELSE IF call.op = "put" THEN Res(FsPut(B, call.info, call.content))
        ELSE IF call.op = "remove" THEN Res(FsRemove(B, call.info))
        ELSE IF call.op = "rename" THEN Res(FsRename(B, call.info, call.new_info, FALSE))
        ELSE Res(FsNuke(B))

\* the methods of CompressedObjectStorage around the blob directory
Compressed_call(S, T, call) ==
    LET Unzipped(r, z) == IF z.err = "OK" THEN [r EXCEPT !.data = z.data]
                          ELSE [r EXCEPT !.err = z.err, !.data = Plain(<< >>)]
        Got(r) == IF r.err # "OK" \/ call.info.compression = "" THEN r
                  ELSE Unzipped(r, gunzip(r.data))
        info == [call.info EXCEPT !.compression = "gzip"]
    IN  IF call.op = "get" THEN Got(Fs_call(S, T, call))
        ELSE IF call.op = "put"
             THEN Fs_call(S, T, [call EXCEPT !.info = info, !.content = gzip(call.content)])
        ELSE Fs_call(S, T, call)

\* EncryptedObjectStorage has no rename: the call is handed to the store it
\* wraps, as the compression wrapper does
Encrypted_rename(S, T, call) == Fs_call(S, T, call)

\* the methods of EncryptedObjectStorage around the blob directory
Encrypted_call(S, T, call) ==
    LET parsed == FileKey_deserialize(call.info.encryption_key)
        Failed(err) == [T |-> T, err |-> err, info |-> call.info, data |-> Plain(<< >>)]
        Opened(r, d) == IF d.err = "OK" THEN [r EXCEPT !.info = call.info, !.data = d.data]
                        ELSE Failed(d.err)
        Got(r) == IF r.err # "OK" THEN [r EXCEPT !.info = call.info]
                  ELSE Opened(r, decrypt(T.encryption_key, parsed.key, r.data))
        Moved(key) == [call.info EXCEPT !.full_path = enc_path(S, key, @)]
        \* put: the path of the info is restored only after a put without error
        Stored(r, prev_path) == IF r.err # "OK" THEN r
                                ELSE [r EXCEPT !.info.full_path = prev_path]
        Sealed(e) ==
            Stored(Fs_call(S, T, [call EXCEPT
                                     !.info = [Moved(e.key) EXCEPT
                                                  !.encryption_key = FileKey_serialize(e.key)],
                                     !.content = e.ciphertext]),
                   call.info.full_path)
        Removed(r) == [r EXCEPT !.info = call.info]
    IN  IF call.op = "get"
        THEN IF parsed.err # "OK" THEN Failed("ERR")
             ELSE Got(Fs_call(S, T, [call EXCEPT !.info = Moved(parsed.key)]))
        ELSE IF call.op = "put"
             THEN Sealed(encrypt(T.encryption_key, call.content, call.info.sha512,
                                 call.salt, call.nonce))
        ELSE IF call.op = "remove"
             THEN IF parsed.err # "OK" THEN Failed("ERR")
                  ELSE Removed(Fs_call(S, T, [call EXCEPT !.info = Moved(parsed.key)]))
        ELSE IF call.op = "rename" THEN Encrypted_rename(S, T, call)
        ELSE Fs_call(S, T, call)

\* create_object_storage: the blob directory, wrapped by the encryption when
\* an encryption key is configured, else by the compression when a level is
Store_call(S, T, call) ==
    IF T.wrapper = "aes" THEN Encrypted_call(S, T, call)
    ELSE IF T.wrapper = "gzip" THEN Compressed_call(S, T, call)
    ELSE Fs_call(S, T, call)

\* -------------------------------------------------- replication wrapper
\* The random values and the failures of a call are given for every store:
\* call.draws[i] and call.fails[i] are those of the store with the id i - 1.
\* touched is the list of the ids of the stores that the call was handed to.
CallAt(call, id, info) ==
    [op |-> call.op, info |-> info, new_info |-> call.new_info, content |-> call.content,
     salt |-> call.draws[id + 1].salt, nonce |-> call.draws[id + 1].nonce,
     io |-> call.fails[id + 1]]

\* a loop over the replicas that goes on after an error
RECURSIVE Replicas_each_all(_, _, _, _, _, _)
Replicas_each_all(S, R, call, i, info, touched) ==
    IF i > Len(R.replicas)
    THEN [R |-> R, err |-> "OK", info |-> info, touched |-> touched]
    ELSE LET Next(r) ==
                 Replicas_each_all(S, [R EXCEPT !.replicas[i] = r.T], call, i + 1, r.info,
                                   Append(touched, i))
         IN  Next(Store_call(S, R.replicas[i], CallAt(call, i, info)))

\* for replica in &mut self.replicas { replica.call(..)?; } Ok(())
RECURSIVE Replicas_each(_, _, _, _, _, _)
Replicas_each(S, R, call, i, info, touched) ==
    IF i > Len(R.replicas)
    THEN [R |-> R, err |-> "OK", info |-> info, touched |-> touched]
    ELSE LET Next(r) ==
                 IF r.err # "OK"
                 THEN [R |-> [R EXCEPT !.replicas[i] = r.T], err |-> r.err, info |-> r.info,
                       touched |-> Append(touched, i)]
                 ELSE Replicas_each(S, [R EXCEPT !.replicas[i] = r.T], call, i + 1, r.info,
                                    Append(touched, i))
         IN  Next(Store_call(S, R.replicas[i], CallAt(call, i, info)))

\* put, remove, rename and nuke: self.primary.call(..)?; then the replicas
Replicated_each(S, R, call) ==
    LET First(r) ==
            IF r.err # "OK"
            THEN [R |-> [R EXCEPT !.primary = r.T], err |-> r.err, info |-> r.info,
                  touched |-> <<0>>]
            ELSE Replicas_each(S, [R EXCEPT !.primary = r.T], call, 1, r.info, <<0>>)
    IN  First(Store_call(S, R.primary, CallAt(call, 0, call.info)))

Replicated_put(S, R, call) == Replicated_each(S, R, [call EXCEPT !.op = "put"])
Replicated_remove(S, R, call) == Replicated_each(S, R, [call EXCEPT !.op = "remove"])
Replicated_rename(S, R, call) == Replicated_each(S, R, [call EXCEPT !.op = "rename"])
Replicated_nuke(S, R, call) == Replicated_each(S, R, [call EXCEPT !.op = "nuke"])

\* get: self.primary.get(info)
Replicated_get(S, R, call) ==
    LET Read(r) == [R |-> [R EXCEPT !.primary = r.T], err |-> r.err, info |-> r.info,
                    data |-> r.data, touched |-> <<0>>]
    IN  Read(Store_call(S, R.primary, CallAt([call EXCEPT !.op = "get"], 0, call.info)))

\* -------------------------------------------------------- Session Cache
OpenFlags_from(flags) ==
    [read_only  |-> BitAnd(flags, 3) = O_RDONLY,
     write_only |-> BitAnd(flags, 3) = O_WRONLY,
     read_write |-> BitAnd(flags, 3) = O_RDWR,
     append     |-> BitAnd(flags, O_APPEND) # 0,
     exclusive  |-> BitAnd(flags, O_EXCL) # 0]

NewCacheRow(full_path, mode) ==
    [full_path |-> full_path, mode |-> mode, content |-> << >>,
     retrieved |-> FALSE, modified |-> FALSE, count |-> 1]

\* a variant that lets exclusive opens share a session
OpenValid_shared(prev_mode, mode) ==
    OpenFlags_from(prev_mode).read_only /\ OpenFlags_from(mode).read_only

\* whether a second open is compatible with the session that exists
OpenValid(prev_mode, mode) ==
    LET prev_flags == OpenFlags_from(prev_mode)
        new_flags == OpenFlags_from(mode)
    IN  /\ prev_flags.read_only /\ new_flags.read_only
        /\ ~prev_flags.exclusive /\ ~new_flags.exclusive

\* cache.insert: the row of the id is replaced
CacheInsert(cache, id, row) == (id :> row) @@ cache

St_open(S, id, full_path, mode) ==
    IF BitAnd(mode, O_APPEND) # 0 THEN [S |-> S, err |-> "EIO"]
    ELSE IF id \in DOMAIN S.cache /\ ~OpenValid(S.cache[id].mode, mode)
         THEN [S |-> S, err |-> "EIO"]
    ELSE LET counted == IF id \in DOMAIN S.cache
                        THEN [S.cache EXCEPT ![id].count = S.cache[id].count + 1]
                        ELSE S.cache
         IN  [S |-> [S EXCEPT !.cache = CacheInsert(counted, id, NewCacheRow(full_path, mode))],
              err |-> "OK"]

\* a variant of read that copies from the start of the buffer
St_read_start(S, id, file, offset, buff_len) ==
    IF id \notin DOMAIN S.cache THEN [S |-> S, err |-> "EIO", data |-> << >>]
    ELSE LET row == S.cache[id]
             content == IF row.retrieved \/ file.sha512 = EMPTY THEN row.content
                        ELSE FsGet(S, ObjInfo_new(file, row.full_path)).data
         IN  [S |-> S, err |-> "OK",
              data |-> SubSeq(content, 1, Min(buff_len, Len(content) - offset))]

St_read(S, id, file, offset, buff_len) ==
    IF id \notin DOMAIN S.cache THEN [S |-> S, err |-> "EIO", data |-> << >>]
    ELSE LET row == S.cache[id]
             got == IF file.sha512 # EMPTY
                    THEN FsGet(S, ObjInfo_new(file, row.full_path))
                    ELSE [err |-> "OK", data |-> << >>]
             content == IF row.retrieved THEN row.content ELSE got.data
             S1 == [S EXCEPT !.cache[id].content = content, !.cache[id].retrieved = TRUE]
             read_len == Min(buff_len, Len(content) - offset)
         IN  IF BitAnd(row.mode, O_WRONLY) # 0 THEN [S |-> S, err |-> "EIO", data |-> << >>]
             ELSE IF ~row.retrieved /\ got.err # "OK"
                  THEN [S |-> S, err |-> "EIO", data |-> << >>]
             ELSE IF offset >= Len(content) THEN [S |-> S1, err |-> "OK", data |-> << >>]
             ELSE [S |-> S1, err |-> "OK",
                   data |-> SubSeq(content, offset + 1, offset + read_len)]

\* Vec::resize(n, 0) when n is larger than the length
ResizeZero(content, n) ==
    IF n > Len(content) THEN content \o [i \in 1..(n - Len(content)) |-> 0] ELSE content

\* content[offset..offset + len].copy_from_slice(buff)
CopyFromSlice(content, offset, buff) ==
    [i \in 1..Len(content) |->
        IF i > offset /\ i <= offset + Len(buff) THEN buff[i - offset] ELSE content[i]]

WriteContent(content, offset, buff) ==
    IF offset = Len(buff) THEN content \o buff
    ELSE CopyFromSlice(ResizeZero(content, offset + Len(buff)), offset, buff)

St_write(S, id, offset, buff) ==
    IF id \notin DOMAIN S.cache THEN [S |-> S, err |-> "EIO", len |-> 0]
    ELSE LET row == S.cache[id]
             cleared == IF row.retrieved THEN << >> ELSE row.content
         IN  IF BitAnd(row.mode, O_RDONLY) # 0 THEN [S |-> S, err |-> "EIO", len |-> 0]
             ELSE [S |-> [S EXCEPT !.cache[id].content = WriteContent(cleared, offset, buff),
                                   !.cache[id].retrieved = FALSE,
                                   !.cache[id].modified = TRUE],
                   err |-> "OK", len |-> Len(buff)]

\* a variant of flush that stores the content and leaves the size of the row
St_flush_stale(S, id, file) ==
    LET row == S.cache[id]
        file1 == [file EXCEPT !.sha512 = Sha512Hex(row.content)]
        put == FsPut(S, ObjInfo_new(file1, row.full_path), row.content)
    IN  IF ~row.modified THEN [S |-> S, err |-> "OK", modified |-> FALSE, file |-> file]
        ELSE [S |-> put.S, err |-> put.err, modified |-> put.err = "OK", file |-> file1]

\* file is the caller's row; the result carries the row as flush leaves it
St_flush(S, id, file) ==
    LET row == S.cache[id]
        sha512 == Sha512Hex(row.content)
        S1 == IF file.sha512 # EMPTY /\ file.sha512 # sha512
              THEN [S EXCEPT !.pending_remove = @ \cup {ObjInfo_new(file, row.full_path)}]
              ELSE S
        file1 == [file EXCEPT !.sha512 = sha512]
        put == FsPut(S1, ObjInfo_new(file1, row.full_path), row.content)
    IN  IF ~row.modified THEN [S |-> S, err |-> "OK", modified |-> FALSE, file |-> file]
        ELSE IF put.err # "OK"
             THEN [S |-> put.S, err |-> put.err, modified |-> FALSE, file |-> file1]
        ELSE [S |-> put.S, err |-> "OK", modified |-> TRUE,
              file |-> [file1 EXCEPT !.size = Len(row.content)]]

St_close(S, id, file) ==
    LET count == S.cache[id].count - 1
        Flushed(fl) == [fl EXCEPT !.S = IF count <= 0
                                        THEN [fl.S EXCEPT !.cache = Drop(fl.S.cache, id)]
                                        ELSE fl.S]
    IN  IF id \notin DOMAIN S.cache
        THEN [S |-> S, err |-> "EIO", modified |-> FALSE, file |-> file]
        ELSE Flushed(St_flush([S EXCEPT !.cache[id].count = count], id, file))

\* a variant of remove that never schedules the object for removal
St_remove_keeps(S, id, file, full_path) ==
    IF id \in DOMAIN S.cache THEN [S |-> S, err |-> "EIO"] ELSE [S |-> S, err |-> "OK"]

\* a variant of remove that does not look for a session of the file
St_remove_busy(S, id, file, full_path) ==
    IF file.sha512 # EMPTY
    THEN [S |-> [S EXCEPT !.pending_remove = @ \cup {ObjInfo_new(file, full_path)}],
          err |-> "OK"]
    ELSE [S |-> S, err |-> "OK"]

St_remove(S, id, file, full_path) ==
    IF id \in DOMAIN S.cache THEN [S |-> S, err |-> "EIO"]
    ELSE IF file.sha512 # EMPTY
         THEN [S |-> [S EXCEPT !.pending_remove = @ \cup {ObjInfo_new(file, full_path)}],
               err |-> "OK"]
    ELSE [S |-> S, err |-> "OK"]

\* a variant of rename that leaves the object where it is
St_rename_stays(S, id, file, prev_full_path, new_full_path, dir_there) ==
    IF id \in DOMAIN S.cache THEN [S |-> S, err |-> "EIO"] ELSE [S |-> S, err |-> "OK"]

St_rename(S, id, file, prev_full_path, new_full_path, dir_there) ==
    IF id \in DOMAIN S.cache THEN [S |-> S, err |-> "EIO"]
    ELSE IF file.kind = FILE_KIND_DIRECTORY THEN [S |-> S, err |-> "OK"]
    ELSE FsRename(S, ObjInfo_new(file, prev_full_path), ObjInfo_new(file, new_full_path),
                  dir_there)

\* the loop of StorageInterface::cleanup over pending_remove in the order ord
RECURSIVE CleanupLoop(_, _)
CleanupLoop(S, ord) ==
    IF Len(ord) = 0 THEN [S |-> [S EXCEPT !.pending_remove = {}], err |-> "OK"]
    ELSE LET r == FsRemove(S, ord[1])
         IN  IF r.err # "OK" THEN [S |-> r.S, err |-> r.err]
             ELSE CleanupLoop(r.S, Tail(ord))

St_cleanup(S, ord) == CleanupLoop(S, ord)


\* --------------------------------------------------- Filesystem Service
\* Every operation maps a state to [S |-> the state after, err |-> "OK" or
\* the errno].  "HANG" is a call that never returns, "PANIC" an unwrap of None.

Fail(S, code) == [S |-> S, err |-> code]

\* a variant that takes the limit of the length as exclusive
is_validate_file_name_short(name) ==
    /\ ByteLen(name) > 0 /\ ByteLen(name) < MaxNameLen
    /\ ~Contains(name, "/") /\ name # DOT /\ name # DOTDOT

is_validate_file_name(name) ==
    /\ ByteLen(name) > 0 /\ ByteLen(name) <= MaxNameLen
    /\ ~Contains(name, "/") /\ name # DOT /\ name # DOTDOT

\* BEGIN TRANSACTION ... COMMIT, or ROLLBACK of the tables when func failed
transaction(S0, res) ==
    IF res.err = "OK" THEN res
    ELSE [res EXCEPT !.S = [res.S EXCEPT !.files = S0.files,
                                     !.dirent = S0.dirent,
                                     !.next_id = S0.next_id]]

\* ord lists the objects of pending_remove in the iteration order of the set
fs_cleanup(S, ord) ==
    IF \E info \in S.pending_remove : \A i \in 1..Len(ord) : ord[i] # info
    THEN Fail(S, "ORDER")
    ELSE St_cleanup(S, SelectSeq(ord, LAMBDA info : info \in S.pending_remove))

fs_lookup(S, parent, name) ==
    IF ~HasFile(S, parent) THEN [err |-> "ENOENT", id |-> 0]
    ELSE IF S.files[parent].kind # FILE_KIND_DIRECTORY THEN [err |-> "ENOTDIR", id |-> 0]
    ELSE LET i == find_directory_entry(S, parent, name)
         IN  IF i = 0 THEN [err |-> "OK", id |-> 0]
             ELSE IF ~HasFile(S, S.dirent[i].entry_file_id) THEN [err |-> "ENOENT", id |-> 0]
             ELSE [err |-> "OK", id |-> S.dirent[i].entry_file_id]

\* a listing one entry short of the page
fs_readdir_short(S, id, offset) == get_directory_entries(S, id, ReaddirLimit - 1, offset)

fs_readdir(S, id, offset) == get_directory_entries(S, id, ReaddirLimit, offset)

fs_setattr(S, id, size) ==
    transaction(S,
        IF ~HasFile(S, id) THEN Fail(S, "ENOENT")
        ELSE LET file == IF size >= 0 THEN [S.files[id] EXCEPT !.size = size]
                         ELSE S.files[id]
             IN  [S |-> update_file(S, id, file), err |-> "OK"])

Entry(directory_file_id, entry_file_id, name, kind) ==
    [directory_file_id |-> directory_file_id, entry_file_id |-> entry_file_id,
     name |-> name, kind |-> kind]

fs_mkdir(S, parent, name) ==
    IF ~is_validate_file_name(name) THEN Fail(S, "EINVAL")
    ELSE IF ~HasFile(S, parent) THEN Fail(S, "ENOENT")
    ELSE transaction(S,
        LET id == S.next_id
            S1 == add_file(S, NewFileRow(FILE_KIND_DIRECTORY, name))
            a1 == add_directory_entry(S1, Entry(id, id, DOT, FILE_KIND_DIRECTORY))
            a2 == add_directory_entry(a1.S, Entry(id, parent, DOTDOT, FILE_KIND_DIRECTORY))
            a3 == add_directory_entry(a2.S, Entry(parent, id, name, FILE_KIND_DIRECTORY))
        IN  IF a1.err # "OK" THEN a1
            ELSE IF a2.err # "OK" THEN a2
            ELSE a3)

\* a variant of mknod without the test for an entry of the name
fs_mknod_unchecked(S, parent, name) ==
    IF ~is_validate_file_name(name) THEN Fail(S, "EINVAL")
    ELSE transaction(S,
        add_directory_entry(add_file(S, NewFileRow(FILE_KIND_REGULAR, name)),
                            Entry(parent, S.next_id, name, FILE_KIND_REGULAR)))

fs_mknod(S, parent, name) ==
    IF ~is_validate_file_name(name) THEN Fail(S, "EINVAL")
    ELSE IF ~HasFile(S, parent) THEN Fail(S, "ENOENT")
    ELSE IF S.files[parent].kind # FILE_KIND_DIRECTORY THEN Fail(S, "ENOTDIR")
    ELSE IF find_directory_entry(S, parent, name) # 0 THEN Fail(S, "EEXIST")
    ELSE transaction(S,
        LET id == S.next_id
            S1 == add_file(S, NewFileRow(FILE_KIND_REGULAR, name))
        IN  add_directory_entry(S1, Entry(parent, id, name, FILE_KIND_REGULAR)))

fs_unlink(S, parent, name, ord) ==
    LET i == find_directory_entry(S, parent, name)
        id == S.dirent[i].entry_file_id
        file == S.files[id]
        Removed(rm) == IF rm.err # "OK" THEN rm
                       ELSE fs_cleanup(remove_file(rm.S, id), ord)
        Found(full_path) == IF full_path.err # "OK" THEN Fail(S, full_path.err)
                            ELSE Removed(St_remove(S, id, file, full_path.path))
    IN  IF ~is_validate_file_name(name) THEN Fail(S, "EINVAL")
        ELSE IF i = 0 THEN Fail(S, "ENOENT")
        ELSE IF ~HasFile(S, id) THEN Fail(S, "ENOENT")
        ELSE IF file.kind = FILE_KIND_DIRECTORY THEN Fail(S, "EISDIR")
        ELSE IF ~HasFile(S, parent) THEN Fail(S, "ENOENT")
        ELSE Found(get_file_path(S, id))

fs_rmdir(S, parent, name, ord) ==
    IF ~is_validate_file_name(name) THEN Fail(S, "EINVAL")
    ELSE LET i == find_directory_entry(S, parent, name)
             dir_entry == S.dirent[i]
             id == dir_entry.entry_file_id
             entries == get_directory_entries(S, id, 10, 0)
         IN  IF i = 0 THEN Fail(S, "ENOENT")
             ELSE IF ~HasFile(S, id) THEN Fail(S, "ENOENT")
             ELSE IF ~HasFile(S, dir_entry.directory_file_id) THEN Fail(S, "ENOENT")
             ELSE IF S.files[id].kind # FILE_KIND_DIRECTORY THEN Fail(S, "ENOTDIR")
             ELSE IF Len(entries) > 2 THEN Fail(S, "ENOTEMPTY")
             ELSE fs_cleanup(remove_file(S, id), ord)

\* the transaction body of rename, after the target name was made free
RenameBody(S, parent, entry, new_name, dir_there) ==
    LET id == entry.entry_file_id
        Moved(S2, file, prev_path, new_path) ==
            IF new_path.err # "OK" THEN Fail(S2, new_path.err)
            ELSE St_rename(S2, id, file, prev_path.path, new_path.path, dir_there)
        Updated(S1, file, prev_path, S2) ==
            Moved(S2, file, prev_path, get_file_path(S2, id))
        Named(S1, file, prev_path) ==
            IF prev_path.err # "OK" THEN Fail(S1, prev_path.err)
            ELSE Updated(S1, file, prev_path, update_file(S1, id, file))
        Entered(upd) ==
            IF upd.err # "OK" THEN upd
            ELSE IF ~HasFile(upd.S, id) THEN Fail(upd.S, "ENOENT")
            ELSE Named(upd.S, [upd.S.files[id] EXCEPT !.name = new_name],
                       get_file_path(upd.S, id))
    IN  IF ~HasFile(S, parent) THEN Fail(S, "ENOENT")
        ELSE Entered(update_directory_entry(S, entry, [entry EXCEPT !.name = new_name]))

fs_rename(S, parent, old_name, new_name, ord, dir_there) ==
    LET i == find_directory_entry(S, parent, old_name)
        entry == S.dirent[i]
        j == find_directory_entry(S, parent, new_name)
        Freed(S1) == transaction(S1, RenameBody(S1, parent, entry, new_name, dir_there))
        Unlinked(un) == IF un.err # "OK" THEN un ELSE Freed(un.S)
    IN  IF ~is_validate_file_name(old_name) THEN Fail(S, "EINVAL")
        ELSE IF ~is_validate_file_name(new_name) THEN Fail(S, "EINVAL")
        ELSE IF i = 0 THEN Fail(S, "ENOENT")
        ELSE IF j # 0 /\ S.dirent[j].kind = FILE_KIND_DIRECTORY THEN Fail(S, "EISDIR")
        ELSE IF j # 0 /\ S.dirent[j].kind # FILE_KIND_REGULAR THEN Fail(S, "EEXIST")
        ELSE IF j # 0 THEN Unlinked(fs_unlink(S, parent, new_name, ord))
        ELSE Freed(S)

MoveBody(S, parent_id, name, new_parent_id, new_name, dir_there) ==
    LET Renamed(mv) ==
            IF mv.err # "OK" THEN mv
            ELSE IF S.store_file_change_history
                    /\ (~HasFile(mv.S, parent_id) \/ ~HasFile(mv.S, new_parent_id))
                 THEN Fail(mv.S, "ENOENT")
            ELSE mv
        Added(add, id, file, old_path, new_path) ==
            IF add.err # "OK" THEN add
            ELSE Renamed(St_rename(update_file(add.S, id, file), id, file,
                                   old_path, new_path, dir_there))
        Taken(S1, old_entry, old_path, new_path) ==
            Added(add_directory_entry(
                      remove_directory_entry(S1, old_entry),
                      Entry(new_parent_id, old_entry.entry_file_id, new_name,
                            S1.files[old_entry.entry_file_id].kind)),
                  old_entry.entry_file_id,
                  [S1.files[old_entry.entry_file_id] EXCEPT !.name = new_name],
                  old_path, new_path)
        Freed(S1, i, old_path, new_path) ==
            IF i = 0 THEN Fail(S1, "ENOENT")
            ELSE IF ~HasFile(S1, S1.dirent[i].entry_file_id) THEN Fail(S1, "ENOENT")
            ELSE Taken(S1, S1.dirent[i], old_path, new_path)
        Target(S1, old_path, new_path) ==
            Freed(S1, find_directory_entry(S1, parent_id, name), old_path, new_path)
        Paths(j, old_path, new_path) ==
            Target(IF j # 0 THEN remove_file(S, S.dirent[j].entry_file_id) ELSE S,
                   old_path, new_path)
        NewParent(old_parent_path, new_parent_path) ==
            IF new_parent_path.err # "OK" THEN Fail(S, new_parent_path.err)
            ELSE Paths(find_directory_entry(S, new_parent_id, new_name),
                       old_parent_path.path \o SLASH \o name,
                       new_parent_path.path \o SLASH \o new_name)
        OldParent(old_parent_path) ==
            IF old_parent_path.err # "OK" THEN Fail(S, old_parent_path.err)
            ELSE NewParent(old_parent_path, get_file_path(S, new_parent_id))
    IN  OldParent(get_file_path(S, parent_id))

fs_move_file(S, parent_id, name, new_parent_id, new_name, dir_there) ==
    transaction(S, MoveBody(S, parent_id, name, new_parent_id, new_name, dir_there))

fs_open(S, id, flags) ==
    IF ~HasFile(S, id) THEN Fail(S, "ENOENT")
    ELSE LET full_path == get_file_path(S, id)
         IN  IF full_path.err # "OK" THEN Fail(S, full_path.err)
             ELSE St_open(S, id, full_path.path, flags)

fs_read(S, id, offset, size) ==
    IF ~HasFile(S, id) THEN [S |-> S, err |-> "ENOENT", data |-> << >>]
    ELSE St_read(S, id, S.files[id], offset, size)

fs_write(S, id, offset, data) ==
    IF ~HasFile(S, id) THEN [S |-> S, err |-> "ENOENT", len |-> 0]
    ELSE St_write(S, id, offset, data)

\* storage.close, then update_file when the session was modified
CloseAndUpdate(S, id) ==
    LET Closed(cl) ==
            IF cl.err # "OK" THEN Fail(cl.S, cl.err)
            ELSE IF cl.modified THEN [S |-> update_file(cl.S, id, cl.file), err |-> "OK"]
            ELSE [S |-> cl.S, err |-> "OK"]
    IN  Closed(St_close(S, id, S.files[id]))

fs_release(S, id, ord) ==
    LET Closed(cu) == IF cu.err # "OK" THEN cu ELSE fs_cleanup(cu.S, ord)
    IN  IF ~HasFile(S, id) THEN Fail(S, "ENOENT")
        ELSE Closed(CloseAndUpdate(S, id))

\* release while the backend's write fails (io_error): put returns the error
\* of fs::write and stores nothing.  The calls are those of release.
FsPut_io(S, info, content, io_error) ==
    IF io_error THEN [S |-> S, err |-> "EIO"] ELSE FsPut(S, info, content)

St_flush_io(S, id, file, io_error) ==
    LET row == S.cache[id]
        sha512 == Sha512Hex(row.content)
        S1 == IF file.sha512 # EMPTY /\ file.sha512 # sha512
              THEN [S EXCEPT !.pending_remove = @ \cup {ObjInfo_new(file, row.full_path)}]
              ELSE S
        file1 == [file EXCEPT !.sha512 = sha512]
        put == FsPut_io(S1, ObjInfo_new(file1, row.full_path), row.content, io_error)
    IN  IF ~row.modified THEN [S |-> S, err |-> "OK", modified |-> FALSE, file |-> file]
        ELSE IF put.err # "OK"
             THEN [S |-> put.S, err |-> put.err, modified |-> FALSE, file |-> file1]
        ELSE [S |-> put.S, err |-> "OK", modified |-> TRUE,
              file |-> [file1 EXCEPT !.size = Len(row.content)]]

\* a variant of close that leaves the session in the cache when flush fails
St_close_io_keeps(S, id, file, io_error) ==
    LET count == S.cache[id].count - 1
        Flushed(fl) == [fl EXCEPT !.S = IF count <= 0 /\ fl.err = "OK"
                                        THEN [fl.S EXCEPT !.cache = Drop(fl.S.cache, id)]
                                        ELSE fl.S]
    IN  IF id \notin DOMAIN S.cache
        THEN [S |-> S, err |-> "EIO", modified |-> FALSE, file |-> file]
        ELSE Flushed(St_flush_io([S EXCEPT !.cache[id].count = count], id, file, io_error))

St_close_io(S, id, file, io_error) ==
    LET count == S.cache[id].count - 1
        Flushed(fl) == [fl EXCEPT !.S = IF count <= 0
                                        THEN [fl.S EXCEPT !.cache = Drop(fl.S.cache, id)]
                                        ELSE fl.S]
    IN  IF id \notin DOMAIN S.cache
        THEN [S |-> S, err |-> "EIO", modified |-> FALSE, file |-> file]
        ELSE Flushed(St_flush_io([S EXCEPT !.cache[id].count = count], id, file, io_error))

fs_release_io(S, id, ord, io_error) ==
    LET Updated(cl) ==
            IF cl.err # "OK" THEN Fail(cl.S, cl.err)
            ELSE IF cl.modified THEN [S |-> update_file(cl.S, id, cl.file), err |-> "OK"]
            ELSE [S |-> cl.S, err |-> "OK"]
        Closed(cu) == IF cu.err # "OK" THEN cu ELSE fs_cleanup(cu.S, ord)
    IN  IF ~HasFile(S, id) THEN Fail(S, "ENOENT")
        ELSE Closed(Updated(St_close_io(S, id, S.files[id], io_error)))

\* the read loop of read_all
RECURSIVE ReadLoop(_, _, _, _, _)
ReadLoop(S, id, file, offset, complete_buff) ==
    LET r == St_read(S, id, file, offset, BLOCK_SIZE)
    IN  IF r.err # "OK" THEN [S |-> r.S, err |-> r.err, data |-> complete_buff]
        ELSE IF Len(r.data) = 0 THEN [S |-> r.S, err |-> "OK", data |-> complete_buff]
        ELSE ReadLoop(r.S, id, file, offset + Len(r.data), complete_buff \o r.data)

fs_read_all(S, id, ord) ==
    LET NoData(r) == [S |-> r.S, err |-> r.err, data |-> << >>]
        Cleaned(rd, cl) == [S |-> cl.S, err |-> cl.err, data |-> rd.data]
        Closed(rd, cu) == IF cu.err # "OK" THEN NoData(cu)
                          ELSE Cleaned(rd, fs_cleanup(cu.S, ord))
        WasRead(rd) == IF rd.err # "OK" THEN rd
                       ELSE Closed(rd, CloseAndUpdate(rd.S, id))
        Opened(op) == IF op.err # "OK" THEN NoData(op)
                      ELSE WasRead(ReadLoop(op.S, id, S.files[id], 0, << >>))
        Found(full_path) ==
            IF full_path.err # "OK" THEN [S |-> S, err |-> full_path.err, data |-> << >>]
            ELSE Opened(St_open(S, id, full_path.path, O_RDONLY))
    IN  IF ~HasFile(S, id) THEN [S |-> S, err |-> "ENOENT", data |-> << >>]
        ELSE Found(get_file_path(S, id))

\* the write loop of write_all
RECURSIVE WriteLoop(_, _, _, _)
WriteLoop(S, id, contents, offset) ==
    LET section == IF offset + BLOCK_SIZE < Len(contents)
                   THEN SubSeq(contents, offset + 1, offset + BLOCK_SIZE)
                   ELSE SubSeq(contents, offset + 1, Len(contents))
        w == St_write(S, id, offset, section)
    IN  IF Len(section) = 0 THEN Fail(S, "OK")
        ELSE IF w.err # "OK" THEN Fail(w.S, w.err)
        ELSE IF w.len = 0 THEN Fail(w.S, "OK")
        ELSE WriteLoop(w.S, id, contents, offset + w.len)

fs_write_all(S, id, contents, ord) ==
    LET Closed(cu) == IF cu.err # "OK" THEN cu ELSE fs_cleanup(cu.S, ord)
        Written(wr) == IF wr.err # "OK" THEN wr ELSE Closed(CloseAndUpdate(wr.S, id))
        Opened(op) == IF op.err # "OK" THEN op
                      ELSE Written(WriteLoop(op.S, id, contents, 0))
        Found(full_path) ==
            IF full_path.err # "OK" THEN Fail(S, full_path.err)
            ELSE Opened(St_open(S, id, full_path.path, O_WRONLY))
    IN  IF ~HasFile(S, id) THEN Fail(S, "ENOENT")
        ELSE Found(get_file_path(S, id))

CopyBody(S, file_id, new_parent_id, new_name, ord) ==
    LET new_id == S.next_id
        WasRead(rd) == IF rd.err # "OK" THEN Fail(rd.S, rd.err)
                       ELSE fs_write_all(rd.S, new_id, rd.data, ord)
        Added(add) == IF add.err # "OK" THEN add
                      ELSE WasRead(fs_read_all(add.S, file_id, ord))
    IN  Added(add_directory_entry(add_file(S, NewFileRow(FILE_KIND_REGULAR, new_name)),
                    Entry(new_parent_id, new_id, new_name, S.files[file_id].kind)))

fs_copy_file(S, parent_id, name, new_parent_id, new_name, ord) ==
    LET Looked(file) ==
            IF file.err # "OK" THEN Fail(S, file.err)
            ELSE IF file.id = 0 THEN Fail(S, "PANIC")
            ELSE transaction(S, CopyBody(S, file.id, new_parent_id, new_name, ord))
    IN  IF ~is_validate_file_name(name) THEN Fail(S, "EINVAL")
        ELSE IF ~is_validate_file_name(new_name) THEN Fail(S, "EINVAL")
        ELSE IF ~HasFile(S, new_parent_id) THEN Fail(S, "ENOENT")
        ELSE IF find_directory_entry(S, new_parent_id, new_name) # 0 THEN Fail(S, "EEXIST")
        ELSE Looked(fs_lookup(S, parent_id, name))

\* ------------------------------------------------------------ the machine
VARIABLES
    use_hash_as_filename,        \* StorageConfig.use_hash_as_filename
    store_file_change_history,   \* Config.store_file_change_history
    files,                       \* table files: id -> row
    dirent,                      \* table directory_entry, rows in insertion order
    next_id,                     \* the id the next row of files gets
    cache,                       \* StorageInterface.cache: id -> session
    pending_remove,              \* StorageInterface.pending_remove
    blobs,                       \* the blob directory: key -> content
    stores,                      \* ReplicatedObjectStorage: primary and replicas
    open_files,                  \* FuseFileSystem.open_files: id -> number of handles
    calls,                       \* operation -> calls that changed the data so far
    ret                          \* the last call and its result

vars == <<use_hash_as_filename, store_file_change_history, files, dirent, next_id,
          cache, pending_remove, blobs, stores, open_files, calls, ret>>

State ==
    [use_hash_as_filename |-> use_hash_as_filename,
     store_file_change_history |-> store_file_change_history,
     files |-> files, dirent |-> dirent, next_id |-> next_id,
     cache |-> cache, pending_remove |-> pending_remove, blobs |-> blobs]

Ids == 1..MaxId
AllNames == Names \cup DotNames
\* the names given to the calls that validate them: "." stands for the invalid ones
CheckedNames == Names \cup {DOT}
DataBytes == {1}
Datas == SeqUpTo(DataBytes, MaxLen)
OpenModes == {O_RDONLY, O_WRONLY, O_RDWR, O_RDONLY + O_EXCL, O_RDONLY + O_APPEND}
NoInfo == [full_path |-> EMPTY, sha512 |-> EMPTY]

\* ids ever given to a file, and the first id never given
ArgIds == {id \in Ids : id <= next_id}

\* The last call: its arguments and result when it changed the program's
\* data; of a call that changed nothing only the name, the result and the
\* observation obs of the state it met are kept.
\* invalid: the call was to give an entry a name that the validation rejects
Ret(op, err, id, parent, name, parent2, name2, aux, obs) ==
    [op |-> op, err |-> err, id |-> id, parent |-> parent, name |-> name,
     parent2 |-> parent2, name2 |-> name2, aux |-> aux, obs |-> obs, changed |-> TRUE,
     invalid |-> \/ op \in {"mkdir", "mknod"} /\ ~is_validate_file_name(name)
                 \/ op \in {"rename", "move_file", "copy_file"}
                    /\ ~is_validate_file_name(name2)]

Unchanged(rt) ==
    [rt EXCEPT !.id = 0, !.parent = 0, !.name = EMPTY, !.parent2 = 0, !.name2 = EMPTY,
               !.aux = 0, !.changed = FALSE]

Limit ==
    [mkdir |-> MaxMkdir, mknod |-> MaxMknod, copy_file |-> MaxCopyFile,
     change |-> MaxChange, rmdir |-> MaxRmdir, open |-> MaxOpen,
     read |-> MaxRead, write |-> MaxWrite, release |-> MaxRelease]

Counted(op) ==
    IF op \in {"unlink", "rename", "move_file", "setattr"} THEN "change" ELSE op

\* a store of the replication wrapper: its wrapper ("none", "gzip" or "aes"),
\* the configured encryption key, and its blob directory
NewStore(id, wrapper) ==
    [id |-> id, wrapper |-> wrapper,
     encryption_key |-> IF wrapper = "aes" THEN "pw" ELSE "", blobs |-> << >>]

\* without replicas the replication wrapper is not built
NoReplicas == [primary |-> NewStore(0, "none"), replicas |-> << >>]

\* the seeded database: the root directory with its "." and ".." entries
Database ==
    /\ use_hash_as_filename \in BOOLEAN
    /\ store_file_change_history = TRUE
    /\ files = (ROOT_DIRECTORY_ID :> NewFileRow(FILE_KIND_DIRECTORY, SLASH))
    /\ dirent = <<Entry(ROOT_DIRECTORY_ID, ROOT_DIRECTORY_ID, DOT, FILE_KIND_DIRECTORY),
                  Entry(ROOT_DIRECTORY_ID, ROOT_DIRECTORY_ID, DOTDOT, FILE_KIND_DIRECTORY)>>
    /\ next_id = ROOT_DIRECTORY_ID + 1
    /\ cache = << >>
    /\ pending_remove = {}
    /\ blobs = << >>
    /\ open_files = [id \in Ids |-> 0]
    /\ calls = [op \in DOMAIN Limit |-> 0]

Seed == Database /\ stores = NoReplicas

Init == Seed /\ ret = Ret("init", "OK", 0, 0, EMPTY, 0, EMPTY, 0, 0)

\* The dispatcher takes the next call.  ret.changed tells whether the last
\* call changed the program's data: the calls that can follow a call that
\* changed nothing are those that can follow the state before it, and they
\* are taken from there.  A call that hung or panicked is the last one.
Running == ret.changed /\ ret.err \notin {"HANG", "PANIC"}

\* the bounds of the model: ids and content lengths
Bounded(S) ==
    /\ S.next_id <= MaxId + 1
    /\ \A id \in DOMAIN S.cache : Len(S.cache[id].content) <= MaxBuffer

\* a call returned r (or never returned: the state stays as the last commit
\* left it); handles is open_files after the call
Apply(r, rt, handles) ==
    LET S == IF r.err \in {"HANG", "PANIC"} THEN State ELSE r.S
        changed == S # State \/ handles # open_files
    IN  /\ r.err # "ORDER"
        /\ Bounded(S)
        /\ changed => calls[Counted(rt.op)] < Limit[Counted(rt.op)]
        /\ calls' = IF changed THEN [calls EXCEPT ![Counted(rt.op)] = @ + 1] ELSE calls
        /\ files' = S.files
        /\ dirent' = S.dirent
        /\ next_id' = S.next_id
        /\ cache' = S.cache
        /\ pending_remove' = S.pending_remove
        /\ blobs' = S.blobs
        /\ open_files' = handles
        /\ ret' = IF changed THEN rt ELSE Unchanged(rt)
        /\ UNCHANGED <<use_hash_as_filename, store_file_change_history, stores>>

\* the object of a file under its current path, when it has content
InfoOf(id) ==
    IF id \in DOMAIN files /\ files[id].sha512 # EMPTY
    THEN {ObjInfo_new(files[id], get_file_path(State, id).path)}
    ELSE {}

TargetOf(parent, name) ==
    LET i == find_directory_entry(State, parent, name)
    IN  IF i = 0 THEN 0 ELSE dirent[i].entry_file_id

\* the outcomes of fs::metadata on the key of a path: only a key with a "."
\* or ".." component can name a directory of the blob store
DirThere(full_path) ==
    IF ~use_hash_as_filename /\ DotKey(trim_start_matches(full_path))
    THEN BOOLEAN ELSE {FALSE}

\* obs of a creating call: parent is a directory that holds the valid name
Present(parent, name) ==
    /\ is_validate_file_name(name)
    /\ HasFile(State, parent) /\ files[parent].kind = FILE_KIND_DIRECTORY
    /\ find_directory_entry(State, parent, name) # 0

Mkdir ==
    /\ Running
    /\ \E parent \in ArgIds, name \in CheckedNames :
        LET Done(r) ==
                Apply(r, Ret("mkdir", r.err, IF r.err = "OK" THEN next_id ELSE 0,
                             parent, name, 0, EMPTY, 0, Present(parent, name)), open_files)
        IN  Done(fs_mkdir(State, parent, name))

Mknod ==
    /\ Running
    /\ \E parent \in ArgIds, name \in CheckedNames :
        LET Done(r) ==
                Apply(r, Ret("mknod", r.err, IF r.err = "OK" THEN next_id ELSE 0,
                             parent, name, 0, EMPTY, 0, Present(parent, name)), open_files)
        IN  Done(fs_mknod(State, parent, name))

Unlink ==
    /\ Running
    /\ \E parent \in ArgIds, name \in CheckedNames :
        LET Target(id, info) ==
                \E ord \in Orders(pending_remove \cup info) :
                    LET Done(r) ==
                            Apply(r, Ret("unlink", r.err, id, parent, name, 0, EMPTY,
                                         IF info = {} THEN NoInfo
                                         ELSE CHOOSE i \in info : TRUE, 0), open_files)
                    IN  Done(fs_unlink(State, parent, name, ord))
        IN  Target(TargetOf(parent, name), InfoOf(TargetOf(parent, name)))

Rmdir ==
    /\ Running
    /\ \E parent \in ArgIds, name \in CheckedNames :
        \E ord \in Orders(pending_remove) :
            LET Done(r) ==
                    Apply(r, Ret("rmdir", r.err, TargetOf(parent, name), parent, name,
                                 0, EMPTY, 0, 0), open_files)
            IN  Done(fs_rmdir(State, parent, name, ord))

Rename ==
    /\ Running
    /\ \E parent \in ArgIds, old_name \in CheckedNames, new_name \in CheckedNames :
        LET Target(id) ==
                \E ord \in Orders(pending_remove \cup InfoOf(TargetOf(parent, new_name))),
                   dir_there \in DirThere(get_file_path(State, id).path) :
                    LET Done(r) ==
                            Apply(r, Ret("rename", r.err, id, parent, old_name,
                                         parent, new_name, 0, 0), open_files)
                    IN  Done(fs_rename(State, parent, old_name, new_name, ord, dir_there))
        IN  Target(TargetOf(parent, old_name))

MoveFile ==
    /\ Running
    /\ \E parent \in ArgIds, name \in Names, new_parent \in ArgIds,
          new_name \in Names \cup {EMPTY} :
        \E dir_there \in DirThere(get_file_path(State, parent).path \o SLASH \o name) :
            LET Done(r) ==
                    Apply(r, Ret("move_file", r.err, TargetOf(parent, name), parent, name,
                                 new_parent, new_name, 0, 0), open_files)
            IN  Done(fs_move_file(State, parent, name, new_parent, new_name, dir_there))

CopyFile ==
    /\ Running
    /\ \E parent \in ArgIds, name \in Names,
          new_parent \in ArgIds, new_name \in CheckedNames :
        \E ord \in Orders(pending_remove) :
            LET Done(r) ==
                    Apply(r, Ret("copy_file", r.err, IF r.err = "OK" THEN next_id ELSE 0,
                                 parent, name, new_parent, new_name, 0,
                                 Present(new_parent, new_name)), open_files)
            IN  Done(fs_copy_file(State, parent, name, new_parent, new_name, ord))

Setattr ==
    /\ Running
    /\ \E id \in ArgIds, size \in {-1, 0} :
        LET Done(r) ==
                Apply(r, Ret("setattr", r.err, id, 0, EMPTY, 0, EMPTY, size, 0), open_files)
        IN  Done(fs_setattr(State, id, size))

\* obs: the flags, and the mode of the session the file has (-1: none)
Open ==
    /\ Running
    /\ \E id \in ArgIds, flags \in OpenModes :
        LET prev == IF id \in DOMAIN cache THEN cache[id].mode ELSE -1
            Done(r) ==
                Apply(r, Ret("open", r.err, id, 0, EMPTY, 0, EMPTY, 0,
                             [flags |-> flags, prev |-> prev]),
                      IF r.err = "OK" THEN [open_files EXCEPT ![id] = @ + 1]
                      ELSE open_files)
        IN  Done(fs_open(State, id, flags))

Read ==
    /\ Running
    /\ \E id \in ArgIds, arg \in {<<0, MaxLen>>} :
        LET Done(r) ==
                Apply(r, Ret("read", r.err, id, 0, EMPTY, 0, EMPTY, 0,
                             [id |-> id, offset |-> arg[1], size |-> arg[2],
                              data |-> r.data]),
                      open_files)
        IN  Done(fs_read(State, id, arg[1], arg[2]))

Write ==
    /\ Running
    /\ \E id \in ArgIds, offset \in {0}, data \in Datas :
        LET Done(r) ==
                Apply(r, Ret("write", r.err, id, 0, EMPTY, 0, EMPTY, <<offset, data>>, 0),
                      open_files)
        IN  Done(fs_write(State, id, offset, data))

Release ==
    /\ Running
    /\ \E id \in ArgIds :
        /\ open_files[id] > 0
        /\ \E ord \in Orders(pending_remove \cup
                             (IF id \in DOMAIN cache /\ id \in DOMAIN files
                              THEN {ObjInfo_new(files[id], cache[id].full_path)} ELSE {})) :
            LET Done(r) ==
                    Apply(r, Ret("release", r.err, id, 0, EMPTY, 0, EMPTY, 0, 0),
                          IF r.err = "OK" THEN [open_files EXCEPT ![id] = @ - 1]
                          ELSE open_files)
            IN  Done(fs_release(State, id, ord))

\* the release of a handle of a modified session while the backend's write
\* fails; ret.aux = 1 tells it from a release with a healthy backend
ReleaseFailing ==
    /\ Running
    /\ \E id \in ArgIds :
        /\ open_files[id] > 0
        /\ id \in DOMAIN cache /\ cache[id].modified
        /\ \E ord \in Orders(pending_remove \cup
                             (IF id \in DOMAIN files
                              THEN {ObjInfo_new(files[id], cache[id].full_path)} ELSE {})) :
            LET Done(r) ==
                    Apply(r, Ret("release", r.err, id, 0, EMPTY, 0, EMPTY, 1, 0),
                          [open_files EXCEPT ![id] = @ - 1])
            IN  Done(fs_release_io(State, id, ord, TRUE))

Next ==
    \/ Mkdir \/ Mknod \/ Unlink \/ Rmdir \/ Rename \/ MoveFile \/ CopyFile
    \/ Setattr \/ Open \/ Read \/ Write \/ Release

Spec == Init /\ [][Next]_vars

\* The calls on the tree of names alone.  No content is written, so that the
\* addressing policy plays no part: the policy is the one of the logical path.
InitTree == Init /\ ~use_hash_as_filename
NextTree == Mkdir \/ Mknod \/ Unlink \/ Rmdir \/ Rename \/ MoveFile
SpecTree == InitTree /\ [][NextTree]_vars

\* The calls that add an entry under a validated name, and rename.
NextNames == Mkdir \/ Mknod \/ CopyFile \/ Rename
SpecNames == InitTree /\ [][NextNames]_vars

\* The calls on the content of a file, under either addressing policy.
NextData == Mknod \/ Unlink \/ Open \/ Read \/ Write \/ Release
SpecData == Init /\ [][NextData]_vars

\* Renaming a file that has content, under either addressing policy.
NextRename == Mknod \/ Open \/ Write \/ Release \/ Rename
SpecRename == Init /\ [][NextRename]_vars

\* The calls on the content of a file, and setattr.
NextAttr == Mknod \/ Open \/ Write \/ Release \/ Setattr
SpecAttr == Init /\ [][NextAttr]_vars

\* The calls on the content of a file, with releases during which the write
\* of the backend fails.
NextFlush == Mknod \/ Open \/ Write \/ Release \/ ReleaseFailing \/ Unlink
SpecFlush == Init /\ [][NextFlush]_vars

\* Moving a file onto another one.  The database is the one that the calls
\* mknod(1, "a") = 2, mknod(1, "b") = 3, open(2, O_WRONLY), write(2, 0, [1]) and
\* release(2) leave, under either addressing policy.
TwoFiles(hash) ==
    LET S0 == [use_hash_as_filename |-> hash, store_file_change_history |-> TRUE,
               files |-> (ROOT_DIRECTORY_ID :> NewFileRow(FILE_KIND_DIRECTORY, SLASH)),
               dirent |-> <<Entry(ROOT_DIRECTORY_ID, ROOT_DIRECTORY_ID, DOT,
                                  FILE_KIND_DIRECTORY),
                            Entry(ROOT_DIRECTORY_ID, ROOT_DIRECTORY_ID, DOTDOT,
                                  FILE_KIND_DIRECTORY)>>,
               next_id |-> ROOT_DIRECTORY_ID + 1, cache |-> << >>,
               pending_remove |-> {}, blobs |-> << >>]
        S2 == fs_mknod(fs_mknod(S0, ROOT_DIRECTORY_ID, NameA).S, ROOT_DIRECTORY_ID, NameB).S
        S3 == fs_write(fs_open(S2, 2, O_WRONLY).S, 2, 0, <<1>>).S
    IN  fs_release(S3, 2, << >>).S

InitMove ==
    /\ use_hash_as_filename \in BOOLEAN
    /\ store_file_change_history = TRUE
    /\ files = TwoFiles(use_hash_as_filename).files
    /\ dirent = TwoFiles(use_hash_as_filename).dirent
    /\ next_id = TwoFiles(use_hash_as_filename).next_id
    /\ cache = TwoFiles(use_hash_as_filename).cache
    /\ pending_remove = TwoFiles(use_hash_as_filename).pending_remove
    /\ blobs = TwoFiles(use_hash_as_filename).blobs
    /\ stores = NoReplicas
    /\ open_files = [id \in Ids |-> 0]
    /\ calls = [op \in DOMAIN Limit |-> 0]
    /\ ret = Ret("init", "OK", 0, 0, EMPTY, 0, EMPTY, 0, 0)

NextMove == Open \/ Release \/ MoveFile
SpecMove == InitMove /\ [][NextMove]_vars

\* ------------------------------------------------------------ the backends
\* The four backends ("fs", "sqlar", "s3", "rocksdb"), each with the objects
\* it stores under its own keys.
\* str.trim_end_matches('/') and str.trim_matches('/')
RECURSIVE trim_end_matches(_)
trim_end_matches(s) ==
    IF Len(s) > 0 /\ s[Len(s)] = "/" THEN trim_end_matches(SubSeq(s, 1, Len(s) - 1)) ELSE s
trim_matches(s) == trim_end_matches(trim_start_matches(s))

\* S3ObjectStorage::path under the configured s3_base_path
S3_path(S, s3_base_path, info) ==
    trim_matches(trim_end_matches(s3_base_path) \o SLASH
                    \o trim_start_matches(path_of(S, info)))

\* RocksDbObjectStorage::path: the slice [..32] of a shorter sha512 panics
RocksDb_path(S, info) ==
    IF S.use_hash_as_filename
    THEN IF Len(info.sha512) < HashPrefixLen THEN [err |-> "PANIC", key |-> EMPTY]
         ELSE [err |-> "OK",
               key |-> SubSeq(info.sha512, 1, HashPrefixLen) \o <<".", "d", "a", "t">>]
    ELSE [err |-> "OK", key |-> info.full_path]

\* the key that the backend derives from the info
Backend_path(S, backend, s3_base_path, info) ==
    IF backend = "rocksdb" THEN RocksDb_path(S, info)
    ELSE IF backend = "s3" THEN [err |-> "OK", key |-> S3_path(S, s3_base_path, info)]
    ELSE [err |-> "OK", key |-> path_of(S, info)]

\* SqlarObjectStorage::rename: UPDATE sqlar SET name = new WHERE name = prev
Sqlar_rename(S, prev_name, new_name) ==
    IF prev_name \in DOMAIN S.blobs
    THEN [S |-> [S EXCEPT !.blobs = (new_name :> S.blobs[prev_name]) @@ Drop(S.blobs, prev_name)],
          err |-> "OK"]
    ELSE [S |-> S, err |-> "OK"]

\* S3ObjectStorage::rename: copy_object, then delete_object of the source key.
\* The service fails the copy of a key that is not there; it accepts or
\* rejects (accepts_same) the copy of an object onto itself.
S3_rename(S, prev_path, new_path, accepts_same) ==
    IF prev_path \notin DOMAIN S.blobs THEN [S |-> S, err |-> "EIO"]
    ELSE IF prev_path = new_path /\ ~accepts_same THEN [S |-> S, err |-> "EIO"]
    ELSE [S |-> [S EXCEPT !.blobs = Drop((new_path :> S.blobs[prev_path]) @@ S.blobs,
                                         prev_path)],
          err |-> "OK"]

\* RocksDbObjectStorage::rename: db.get(prev_path)?.unwrap() panics on None
RocksDb_rename(S, prev_info, new_info) ==
    LET prev_path == RocksDb_path(S, prev_info)
        new_path == RocksDb_path(S, new_info)
    IN  IF prev_path.err # "OK" \/ new_path.err # "OK" THEN [S |-> S, err |-> "PANIC"]
        ELSE IF prev_path.key = new_path.key THEN [S |-> S, err |-> "OK"]
        ELSE IF prev_path.key \notin DOMAIN S.blobs THEN [S |-> S, err |-> "PANIC"]
        ELSE [S |-> [S EXCEPT !.blobs = (new_path.key :> S.blobs[prev_path.key])
                                         @@ Drop(S.blobs, prev_path.key)],
              err |-> "OK"]

Backend_rename(S, backend, s3_base_path, prev_info, new_info, accepts_same) ==
    IF backend = "rocksdb" THEN RocksDb_rename(S, prev_info, new_info)
    ELSE IF backend = "s3"
         THEN S3_rename(S, S3_path(S, s3_base_path, prev_info),
                        S3_path(S, s3_base_path, new_info), accepts_same)
    ELSE IF backend = "sqlar"
         THEN Sqlar_rename(S, path_of(S, prev_info), path_of(S, new_info))
    ELSE FsRename(S, prev_info, new_info, FALSE)

\* The backend is the one of the configuration; it holds nothing, or the
\* object of the file /a.  ret.obs keeps the configuration and the last call.
Backends == {"fs", "sqlar", "s3", "rocksdb"}
BasePaths == {EMPTY, <<"p">>, <<"p", "/">>}
BackendInfos ==
    [full_path : {SLASH \o NameA, SLASH \o NameB, <<"/", "a", "/", "b">>},
     sha512 : {EMPTY, Sha512Text(<<1>>), Sha512Text(<<1, 1>>)}]
StoredInfo == [full_path |-> SLASH \o NameA, sha512 |-> Sha512Text(<<1>>)]

InitBackend ==
    /\ Seed
    /\ \E backend \in Backends, base \in BasePaths :
         ret = [Ret("init", "OK", 0, 0, EMPTY, 0, EMPTY, 0, 0) EXCEPT
                   !.obs = [backend |-> backend, base |-> base, info |-> NoInfo,
                            new_info |-> NoInfo, key |-> EMPTY, before |-> << >>]]

BackendDone(op, err, S, info, new_info, key) ==
    /\ ret.aux < MaxCalls
    /\ blobs' = S.blobs
    /\ ret' = [ret EXCEPT !.op = op, !.err = err, !.aux = @ + 1, !.obs.info = info,
                          !.obs.new_info = new_info, !.obs.key = key,
                          !.obs.before = blobs]
    /\ UNCHANGED <<use_hash_as_filename, store_file_change_history, files, dirent,
                   next_id, cache, pending_remove, stores, open_files, calls>>

\* the key of an info
BackendPath ==
    \E info \in BackendInfos :
        LET Done(r) == BackendDone("path", r.err, State, info, NoInfo, r.key)
        IN  Done(Backend_path(State, ret.obs.backend, ret.obs.base, info))

\* the put of the object of the file /a
BackendPut ==
    LET Done(r) ==
            BackendDone("put", r.err,
                        IF r.err = "OK" THEN [State EXCEPT !.blobs = (r.key :> <<1>>) @@ blobs]
                        ELSE State,
                        StoredInfo, NoInfo, r.key)
    IN  Done(Backend_path(State, ret.obs.backend, ret.obs.base, StoredInfo))

BackendRename ==
    \E prev_info \in BackendInfos, new_path \in {SLASH \o NameA, SLASH \o NameB}, accepts_same \in BOOLEAN :
        LET new_info == [prev_info EXCEPT !.full_path = new_path]
            Done(r) == BackendDone("rename", r.err, r.S, prev_info, new_info, EMPTY)
        IN  Done(Backend_rename(State, ret.obs.backend, ret.obs.base, prev_info, new_info,
                                accepts_same))

NextBackend == BackendPath \/ BackendPut \/ BackendRename
SpecBackend == InitBackend /\ [][NextBackend]_vars

\* The calls of one session at any offset: read and write take offsets and
\* lengths up to and beyond the end of the buffer, and bytes that differ.
SessionBytes == {1, 2}
SessionDatas == {<< >>, <<2>>, <<1, 2>>}
\* the regular files
SessionIds == {id \in ArgIds : HasFile(State, id) /\ files[id].kind = FILE_KIND_REGULAR}

\* obs: the arguments and the bytes returned
ReadAt ==
    /\ Running
    /\ \E id \in SessionIds, offset \in 0..(MaxOffset + 1), size \in 0..MaxOffset :
        LET Done(r) ==
                Apply(r, Ret("read", r.err, id, 0, EMPTY, 0, EMPTY, 0,
                             [id |-> id, offset |-> offset, size |-> size,
                              data |-> r.data]),
                      open_files)
        IN  Done(fs_read(State, id, offset, size))

\* aux: the arguments; obs: the length returned
WriteAt ==
    /\ Running
    /\ \E id \in SessionIds, offset \in 0..MaxOffset, data \in SessionDatas :
        LET Done(r) ==
                Apply(r, Ret("write", r.err, id, 0, EMPTY, 0, EMPTY, <<offset, data>>,
                             [len |-> r.len]),
                      open_files)
        IN  Done(fs_write(State, id, offset, data))

NextSession == Mknod \/ Open \/ ReadAt \/ WriteAt \/ Release
SpecSession == Init /\ [][NextSession]_vars

\* mkdir in a directory of many files.  The database is the one that n calls
\* mknod(1, f1), ..., mknod(1, fn) leave: the file of FileName(k) has the id
\* k + 1, and every entry added to the root has bumped the root's version.
Digit == <<"0", "1", "2", "3", "4", "5", "6", "7", "8", "9">>
RECURSIVE Digits(_)
Digits(k) == IF k < 10 THEN <<Digit[k + 1]>> ELSE Append(Digits(k \div 10), Digit[(k % 10) + 1])
FileName(k) == <<"f">> \o Digits(k)
DirSizes == (0..SmallDir) \cup ((ReaddirLimit - NearLimit)..(ReaddirLimit + NearLimit))

InitFull ==
    /\ \E n \in DirSizes :
        /\ files = [id \in 1..(n + 1) |->
                      IF id = ROOT_DIRECTORY_ID
                      THEN [NewFileRow(FILE_KIND_DIRECTORY, SLASH) EXCEPT !.version = 1 + n]
                      ELSE NewFileRow(FILE_KIND_REGULAR, FileName(id - 1))]
        /\ dirent = <<Entry(ROOT_DIRECTORY_ID, ROOT_DIRECTORY_ID, DOT, FILE_KIND_DIRECTORY),
                      Entry(ROOT_DIRECTORY_ID, ROOT_DIRECTORY_ID, DOTDOT, FILE_KIND_DIRECTORY)>>
                    \o [k \in 1..n |->
                          Entry(ROOT_DIRECTORY_ID, k + 1, FileName(k), FILE_KIND_REGULAR)]
        /\ next_id = n + 2
    /\ use_hash_as_filename = FALSE
    /\ store_file_change_history = TRUE
    /\ cache = << >>
    /\ pending_remove = {}
    /\ blobs = << >>
    /\ stores = NoReplicas
    /\ open_files = [id \in Ids |-> 0]
    /\ calls = [op \in DOMAIN Limit |-> 0]
    /\ ret = Ret("init", "OK", 0, 0, EMPTY, 0, EMPTY, 0, 0)

\* one mkdir in the root or in the first file
MkdirFull ==
    /\ ret.op = "init"
    /\ \E parent \in {id \in {1, 2} : id < next_id}, name \in CheckedNames :
        LET Done(r) ==
                /\ files' = r.S.files
                /\ dirent' = r.S.dirent
                /\ next_id' = r.S.next_id
                /\ ret' = Ret("mkdir", r.err, IF r.err = "OK" THEN next_id ELSE 0,
                              parent, name, 0, EMPTY, 0, Present(parent, name))
                /\ UNCHANGED <<use_hash_as_filename, store_file_change_history, cache,
                               pending_remove, blobs, stores, open_files, calls>>
        IN  Done(fs_mkdir(State, parent, name))

SpecFull == InitFull /\ [][MkdirFull]_vars

\* The validation of a name, applied to one name: every name of up to
\* MaxShort characters among those the validation tells apart, and names
\* around the limit of the length.
NameChars == {"a", "/", ".", WIDE}
Repeat(c, n) == [i \in 1..n |-> c]
LongNames ==
    {Repeat(c, n) : c \in {"a", WIDE}, n \in {127, 128, 254, 255, 256}}
    \cup {<<c>> \o Repeat("a", n) : c \in {"/", ".", WIDE}, n \in {253, 254, 255}}
NameInputs == SeqUpTo(NameChars, MaxShort) \cup LongNames

InitValidate ==
    /\ Seed /\ ~use_hash_as_filename
    /\ \E name \in NameInputs : ret = Ret("name", "OK", 0, 0, name, 0, EMPTY, 0, 0)

ValidateName ==
    /\ ret.op = "name"
    /\ ret' = [ret EXCEPT !.op = "is_validate_file_name",
                          !.obs = is_validate_file_name(ret.name)]
    /\ UNCHANGED <<use_hash_as_filename, store_file_change_history, files, dirent,
                   next_id, cache, pending_remove, blobs, stores, open_files, calls>>

SpecValidate == InitValidate /\ [][ValidateName]_vars

\* FileKey::serialize and FileKey::deserialize, applied to keys and to texts.
\* The keys have a salt of 32 bytes, a nonce of 12 bytes and an AAD of 10
\* characters; the texts are three parts around the lengths of a key's parts.
Bytes(n, first, step) == [i \in 1..n |-> (first + (i - 1) * step) % 256]
ByteSeqs(n) == {Bytes(n, 0, 0), Bytes(n, 255, 0), Bytes(n, 7, 37)}
Aads ==
    {<<"#", "1", "1", "0", "0", "0", "0", "0", "0", "0">>,
     <<"c", "f", "8", "3", "e", "1", "3", "5", "7", "e">>,
     <<"c", "f", ":", "3", "e", "1", "3", "5", "7", "e">>,
     <<"c", "f", "8", "3", "e", "1", "3", "5", "7", WIDE>>}
FileKeys == [salt : ByteSeqs(SALT_LEN), nonce : ByteSeqs(NONCE_LEN), aead : Aads]
KeyTexts ==
    {hex_encode(Bytes(SALT_LEN + a, 7, 37)) \o <<":">>
        \o hex_encode(Bytes(NONCE_LEN + b, 7, 37)) \o sep \o Repeat("e", AEAD_LEN + c) :
     a \in -1..1, b \in -1..1, c \in -2..2, sep \in {<<":">>, <<"0">>, <<"g", ":">>}}

InitKey ==
    /\ Seed /\ ~use_hash_as_filename
    /\ \/ \E key \in FileKeys :
            ret = [Ret("key", "OK", 0, 0, EMPTY, 0, EMPTY, 0, 0) EXCEPT
                       !.obs = [key |-> key, text |-> EMPTY, back |-> NoKey]]
       \/ \E text \in KeyTexts :
            ret = [Ret("text", "OK", 0, 0, EMPTY, 0, EMPTY, 0, 0) EXCEPT
                       !.obs = [key |-> NoKey, text |-> text, back |-> NoKey]]

Serialize ==
    /\ ret.op = "key"
    /\ ret' = [ret EXCEPT !.op = "serialize", !.obs.text = FileKey_serialize(ret.obs.key)]
    /\ UNCHANGED <<use_hash_as_filename, store_file_change_history, files, dirent,
                   next_id, cache, pending_remove, blobs, stores, open_files, calls>>

Deserialize ==
    /\ ret.op \in {"serialize", "text"}
    /\ LET Done(r) ==
               ret' = [ret EXCEPT !.op = "deserialize", !.err = r.err, !.obs.back = r.key,
                                  !.aux = IF ret.op = "serialize" THEN 1 ELSE 0]
       IN  Done(FileKey_deserialize(ret.obs.text))
    /\ UNCHANGED <<use_hash_as_filename, store_file_change_history, files, dirent,
                   next_id, cache, pending_remove, blobs, stores, open_files, calls>>

NextKey == Serialize \/ Deserialize
SpecKey == InitKey /\ [][NextKey]_vars

\* encrypt and decrypt, applied to a password and a content.  Decrypt is
\* given the key and the ciphertext of the encryption, or the key read back
\* from its text, or one of them changed in one place.
Passwords == {"pw", "1234"}
Contents == SeqUpTo({0, 1}, MaxLen)
Changes == {"none", "text", "salt", "nonce", "aad", "ciphertext", "tag", "length"}

ChangedKey(key, change, salt, nonce) ==
    IF change = "text" THEN FileKey_deserialize(FileKey_serialize(key)).key
    ELSE IF change = "salt" THEN [key EXCEPT !.salt = salt]
    ELSE IF change = "nonce" THEN [key EXCEPT !.nonce = nonce]
    ELSE IF change = "aad" THEN [key EXCEPT !.aead = [@ EXCEPT ![AEAD_LEN] = "f"]]
    ELSE key

ChangedText(ciphertext, change) ==
    IF change = "ciphertext"
    THEN [ciphertext EXCEPT !.msg = IF @ = << >> THEN <<1>> ELSE [@ EXCEPT ![1] = 1 - @]]
    ELSE IF change = "tag" THEN [ciphertext EXCEPT !.tag = Append(@, 0)]
    ELSE IF change = "length" THEN [ciphertext EXCEPT !.msg = Append(@, 0)]
    ELSE ciphertext

InitCrypt ==
    /\ Seed /\ ~use_hash_as_filename
    /\ \E password \in Passwords, content \in Contents :
            ret = [Ret("content", "OK", 0, 0, EMPTY, 0, EMPTY, 0, 0) EXCEPT
                       !.obs = [password |-> password, content |-> content, key |-> NoKey,
                                ciphertext |-> Plain(<< >>), change |-> "none",
                                data |-> Plain(<< >>)]]

Encrypt ==
    /\ ret.op = "content"
    /\ \E salt \in ByteSeqs(SALT_LEN), nonce \in ByteSeqs(NONCE_LEN) :
            LET Done(r) ==
                    ret' = [ret EXCEPT !.op = "encrypt", !.obs.key = r.key,
                                       !.obs.ciphertext = r.ciphertext]
            IN  Done(encrypt(ret.obs.password, Plain(ret.obs.content),
                             Sha512Text(ret.obs.content), salt, nonce))
    /\ UNCHANGED <<use_hash_as_filename, store_file_change_history, files, dirent,
                   next_id, cache, pending_remove, blobs, stores, open_files, calls>>

Decrypt ==
    /\ ret.op = "encrypt"
    /\ \E change \in Changes, salt \in ByteSeqs(SALT_LEN), nonce \in ByteSeqs(NONCE_LEN) :
            LET Done(r) ==
                    ret' = [ret EXCEPT !.op = "decrypt", !.err = r.err,
                                       !.obs.change = change, !.obs.data = r.data]
            IN  /\ change = "salt" => salt # ret.obs.key.salt
                /\ change # "salt" => salt = ret.obs.key.salt
                /\ change = "nonce" => nonce # ret.obs.key.nonce
                /\ change # "nonce" => nonce = ret.obs.key.nonce
                /\ Done(decrypt(ret.obs.password,
                                ChangedKey(ret.obs.key, change, salt, nonce),
                                ChangedText(ret.obs.ciphertext, change)))
    /\ UNCHANGED <<use_hash_as_filename, store_file_change_history, files, dirent,
                   next_id, cache, pending_remove, blobs, stores, open_files, calls>>

NextCrypt == Encrypt \/ Decrypt
SpecCrypt == InitCrypt /\ [][NextCrypt]_vars

\* The replication wrapper with a primary and NReplicas replicas, every
\* store with one of the wrappers, and one file: ret.obs.file is what the File
\* row keeps of its object (flush copies encryption_key and compression back
\* from the info of a put), ret.obs.content the content of the last put.
Wrappers == {"none", "gzip", "aes"}
PathA == <<"/", "a">>
PathB == <<"/", "b">>
NoFile == [full_path |-> PathA, sha512 |-> EMPTY, encryption_key |-> EMPTY, compression |-> ""]
Draws ==
    {[salt |-> Bytes(SALT_LEN, 0, 0), nonce |-> Bytes(NONCE_LEN, 0, 0)],
     [salt |-> Bytes(SALT_LEN, 7, 37), nonce |-> Bytes(NONCE_LEN, 7, 37)]}
StoreOf(R, id) == IF id = 0 THEN R.primary ELSE R.replicas[id]
\* the random values matter to the stores that encrypt
DrawsOf(R) ==
    {d \in [1..(NReplicas + 1) -> Draws] :
        \A i \in 1..(NReplicas + 1) :
            StoreOf(R, i - 1).wrapper # "aes" => d[i].salt = Bytes(SALT_LEN, 0, 0)}
NoDraws == [i \in 1..(NReplicas + 1) |-> [salt |-> Bytes(SALT_LEN, 0, 0),
                                           nonce |-> Bytes(NONCE_LEN, 0, 0)]]
Fails == [1..(NReplicas + 1) -> BOOLEAN]
NoFails == [i \in 1..(NReplicas + 1) |-> FALSE]

InitReplicas ==
    /\ Database
    /\ \E w \in [0..NReplicas -> Wrappers] :
            stores = [primary |-> NewStore(0, w[0]),
                      replicas |-> [i \in 1..NReplicas |-> NewStore(i, w[i])]]
    /\ ret = [Ret("init", "OK", 0, 0, EMPTY, 0, EMPTY, 0, 0) EXCEPT
                  !.obs = [file |-> NoFile, content |-> Plain(<< >>), touched |-> << >>,
                           data |-> Plain(<< >>), fails |-> NoFails]]

\* what a call through the wrapper leaves: the stores, and in ret the file
ReplDone(op, r, file, content, data, fails) ==
    /\ ret.aux < MaxCalls
    /\ stores' = r.R
    /\ ret' = [Ret(op, r.err, 0, 0, EMPTY, 0, EMPTY, ret.aux + 1, 0) EXCEPT
                   !.obs = [file |-> file, content |-> content, touched |-> r.touched,
                            data |-> data, fails |-> fails]]
    /\ UNCHANGED <<use_hash_as_filename, store_file_change_history, files, dirent,
                   next_id, cache, pending_remove, blobs, open_files, calls>>

ReplCall(content, new_path, draws, fails) ==
    [op |-> "", info |-> ret.obs.file,
     new_info |-> [ret.obs.file EXCEPT !.full_path = new_path],
     content |-> content, draws |-> draws, fails |-> fails]

\* StorageInterface::flush: the put of a content and the copy of the info
ReplPut ==
    \E msg \in {<<0>>, <<1, 1>>}, draws \in DrawsOf(stores), fails \in Fails :
        LET info == [ret.obs.file EXCEPT !.sha512 = Sha512Text(msg)]
            Done(r) ==
                ReplDone("put", r,
                         IF r.err = "OK"
                         THEN [info EXCEPT !.encryption_key = r.info.encryption_key,
                                           !.compression = r.info.compression]
                         ELSE ret.obs.file,
                         IF r.err = "OK" THEN Plain(msg) ELSE ret.obs.content,
                         Plain(<< >>), fails)
        IN  Done(Replicated_put(State, stores,
                                [ReplCall(Plain(msg), PathA, draws, fails) EXCEPT
                                    !.info = info]))

\* StorageInterface::read: the get of the object of the file
ReplGet ==
    /\ ret.obs.file.sha512 # EMPTY
    /\ \E fails \in {f \in Fails : \A i \in 2..(NReplicas + 1) : ~f[i]} :
        LET Done(r) == ReplDone("get", r, ret.obs.file, ret.obs.content, r.data, fails)
        IN  Done(Replicated_get(State, stores,
                                ReplCall(Plain(<< >>), PathA, NoDraws, fails)))

\* StorageInterface::cleanup: the remove of the object of a removed file
ReplRemove ==
    /\ ret.obs.file.sha512 # EMPTY
    /\ \E fails \in Fails :
        LET Done(r) == ReplDone("remove", r, NoFile, Plain(<< >>), Plain(<< >>), fails)
        IN  Done(Replicated_remove(State, stores,
                                   ReplCall(Plain(<< >>), PathA, NoDraws, fails)))

\* StorageInterface::rename: the object of the file gets the other path
ReplRename ==
    /\ ret.obs.file.sha512 # EMPTY
    /\ \E fails \in Fails :
        LET new_path == IF ret.obs.file.full_path = PathA THEN PathB ELSE PathA
            Done(r) ==
                ReplDone("rename", r,
                         IF r.err = "OK" THEN [ret.obs.file EXCEPT !.full_path = new_path]
                         ELSE ret.obs.file,
                         ret.obs.content, Plain(<< >>), fails)
        IN  Done(Replicated_rename(State, stores,
                                   ReplCall(Plain(<< >>), new_path, NoDraws, fails)))

\* StorageInterface::nuke
ReplNuke ==
    \E fails \in Fails :
        LET Done(r) == ReplDone("nuke", r, NoFile, Plain(<< >>), Plain(<< >>), fails)
        IN  Done(Replicated_nuke(State, stores,
                                 ReplCall(Plain(<< >>), PathA, NoDraws, fails)))

NextReplicas == ReplPut \/ ReplGet \/ ReplRemove \/ ReplRename \/ ReplNuke
SpecReplicas == InitReplicas /\ [][NextReplicas]_vars

\* ------------------------------------------------------------ properties
\* the rows of directory_entry that are parent links of a file
ParentLinks(id) ==
    {i \in 1..Len(dirent) : dirent[i].entry_file_id = id /\ dirent[i].name \notin DotNames}

\* the entries a directory holds
EntriesOf(table, id) ==
    {table[i] : i \in {j \in 1..Len(table) : table[j].directory_file_id = id}}

\* C1: every file other than the root has exactly one entry, named neither
\* "." nor "..", that points to it, and the root has none.
C1_ParentLink ==
    \A id \in DOMAIN files :
        Cardinality(ParentLinks(id)) = IF id = ROOT_DIRECTORY_ID THEN 0 ELSE 1

\* C8: the version of a file never decreases, and it grows on every change
\* of its row and, for a directory, on every addition or removal of one of
\* its entries.
C8_VersionGrows ==
    [][\A id \in DOMAIN files \cap DOMAIN files' :
         /\ files'[id].version >= files[id].version
         /\ files'[id] # files[id] => files'[id].version > files[id].version
         /\ (files[id].kind = FILE_KIND_DIRECTORY
                /\ EntriesOf(dirent', id) # EntriesOf(dirent, id))
            => files'[id].version > files[id].version]_vars

\* C9: every directory holds an entry "." and an entry "..".
C9_DotEntries ==
    \A id \in DOMAIN files :
        files[id].kind = FILE_KIND_DIRECTORY
        => /\ find_directory_entry(State, id, DOT) # 0
           /\ find_directory_entry(State, id, DOTDOT) # 0

\* C10: no directory holds two entries of one name; mknod on a valid name
\* that the parent directory already holds fails with EEXIST, mkdir and
\* copy_file on such a name fail, and the failed call adds no row to files
\* and no entry (it changes nothing).
C10_UniqueNames ==
    /\ \A i, j \in 1..Len(dirent) :
          (dirent[i].directory_file_id = dirent[j].directory_file_id
             /\ dirent[i].name = dirent[j].name) => i = j
    /\ (ret.op \in {"mknod", "mkdir", "copy_file"} /\ ret.obs = TRUE)
       => ret.err # "OK" /\ ~ret.changed
    /\ (ret.op = "mknod" /\ ret.obs = TRUE) => ret.err = "EEXIST"

\* the key of the blob of a file with content
KeyOf(S, id) == FsPath(S, ObjInfo_new(S.files[id], get_file_path(S, id).path))

\* the files with content that share the identity of a key: its logical
\* path, or its hash when objects are addressed by hash
Sharing(S, key) ==
    {id \in DOMAIN S.files : S.files[id].sha512 # EMPTY /\ KeyOf(S, id) = key}

\* C2: for every file with content and no open session, the object of the
\* file under its current path is there, with the hash and the length that
\* the row of the file records.
C2_BlobOfEveryFile ==
    \A id \in DOMAIN files :
        (files[id].sha512 # EMPTY /\ id \notin DOMAIN cache)
        => LET got == FsGet(State, ObjInfo_new(files[id], get_file_path(State, id).path))
           IN  /\ got.err = "OK"
               /\ Sha512Hex(got.data) = files[id].sha512
               /\ Len(got.data) = files[id].size

\* C3: no call removes a blob while a file with content shares its
\* identity (the logical path, or the hash under hash addressing).
C3_CleanupKeepsShared ==
    [][\A key \in DOMAIN blobs \ DOMAIN blobs' : Sharing(State', key) = {}]_vars

\* C4: after a successful unlink of a file with content (unlink ends with
\* cleanup), the object the file had cannot be got any more, unless a file
\* that is still there shares its identity.
C4_UnlinkRemovesBlob ==
    (ret.op = "unlink" /\ ret.err = "OK" /\ ret.aux.sha512 # EMPTY)
    => \/ FsGet(State, ret.aux).err # "OK"
       \/ Sharing(State, FsPath(State, ret.aux)) # {}

C4_Witness ==
    /\ ret.op = "unlink" /\ ret.err = "OK" /\ ret.aux.sha512 # EMPTY
    /\ FsGet(State, ret.aux).err # "OK"
    /\ ret.id \notin DOMAIN files

\* the access mode of the flags is O_RDONLY, and O_EXCL is not among them
PlainReadOnly(flags) == flags % 4 = O_RDONLY /\ (flags \div O_EXCL) % 2 = 0

\* C5: while a file has a session, an open of it succeeds exactly when the
\* session and the open are both read-only and neither is exclusive; an
\* open with O_APPEND always fails.
C5_OpenModes ==
    ret.op = "open"
    => /\ (ret.obs.flags \div O_APPEND) % 2 = 1 => ret.err # "OK"
       /\ (ret.obs.prev # -1 /\ (ret.obs.flags \div O_APPEND) % 2 = 0)
          => (ret.err = "OK" <=> PlainReadOnly(ret.obs.prev) /\ PlainReadOnly(ret.obs.flags))

C5_Witness ==
    /\ ret.op = "open" /\ ret.err = "OK"
    /\ ret.obs.prev = O_RDONLY /\ ret.obs.flags = O_RDONLY
    /\ open_files[ret.id] = 2

\* C6: a close that is not the last one of a file leaves its session.
C6_CloseKeepsSession ==
    (ret.op = "release" /\ ret.err = "OK" /\ open_files[ret.id] > 0)
    => ret.id \in DOMAIN cache

\* the regular file got its content by the one write there was
WrittenOnce(id) ==
    /\ id \in DOMAIN files /\ files[id].kind = FILE_KIND_REGULAR
    /\ files[id].sha512 # EMPTY /\ calls.write = 1

\* C7: after mknod, an open for writing and write(id, 0, b), release(id)
\* succeeds and leaves size = len(b) and sha512 = SHA-512(b); a read(id, 0, n)
\* with n >= len(b) in a read-only session opened after it succeeds and
\* returns b, the content with that hash and that length.
C7_RoundTrip ==
    [][/\ (/\ ret.op = "write" /\ ret.err = "OK" /\ ret.aux[1] = 0
            /\ calls.write = 1
            /\ files[ret.id].kind = FILE_KIND_REGULAR /\ files[ret.id].sha512 = EMPTY
            /\ cache[ret.id].mode \in {O_WRONLY, O_RDWR}
            /\ ret'.op = "release" /\ ret'.changed /\ ret'.id = ret.id)
          => /\ ret'.err = "OK"
             /\ files'[ret.id].size = Len(ret.aux[2])
             /\ files'[ret.id].sha512 = Sha512Hex(ret.aux[2])
       /\ (/\ ret'.op = "read" /\ WrittenOnce(ret'.obs.id)
            /\ ret'.obs.id \in DOMAIN cache
            /\ PlainReadOnly(cache[ret'.obs.id].mode)
            /\ ret'.obs.offset = 0 /\ ret'.obs.size >= files[ret'.obs.id].size)
          => /\ ret'.err = "OK"
             /\ Len(ret'.obs.data) = files[ret'.obs.id].size
             /\ Sha512Hex(ret'.obs.data) = files[ret'.obs.id].sha512]_vars

C7_Witness ==
    /\ ret.op = "read" /\ ret.err = "OK" /\ WrittenOnce(ret.obs.id)
    /\ ret.obs.data # << >>
    /\ Sha512Hex(ret.obs.data) = files[ret.obs.id].sha512

\* C11: the validation accepts a name exactly when the name is not empty,
\* is at most 255 bytes long, holds no "/" and is neither "." nor "..".
C11_NameValidation ==
    ret.op = "is_validate_file_name"
    => (ret.obs = TRUE
        <=> /\ ret.name # << >>
            /\ ByteLen(ret.name) <= 255
            /\ \A i \in 1..Len(ret.name) : ret.name[i] # "/"
            /\ ret.name \notin {<<".">>, <<".", ".">>})

\* a name of exactly 255 bytes was accepted
C11_Witness ==
    /\ ret.op = "is_validate_file_name" /\ ret.obs = TRUE
    /\ ByteLen(ret.name) = 255

\* C12: mkdir, mknod, rename, move_file and copy_file, when the name they
\* are to give an entry is invalid, fail with EINVAL and change nothing; no
\* entry with a name other than "." and ".." carries an invalid name.
C12_InvalidNames ==
    /\ (ret.op \in {"mkdir", "mknod", "rename", "move_file", "copy_file"} /\ ret.invalid)
       => ret.err = "EINVAL" /\ ~ret.changed
    /\ \A i \in 1..Len(dirent) :
          dirent[i].name \notin DotNames => is_validate_file_name(dirent[i].name)

\* C15: when mkdir, mknod, setattr, unlink, rmdir, rename, move_file or
\* copy_file returns an error, the rows of files and of directory_entry are
\* as they were before the call.
C15_ErrorChangesNothing ==
    [][(/\ ret'.op \in {"mkdir", "mknod", "setattr", "unlink", "rmdir", "rename",
                        "move_file", "copy_file"}
        /\ ret'.err # "OK")
       => files' = files /\ dirent' = dirent]_vars

\* the object of a file with content, got under the file's current path
BlobOf(S, id) == FsGet(S, ObjInfo_new(S.files[id], get_file_path(S, id).path))

\* the step is a successful rename of a regular file of a directory to
\* another name
RenamedFile ==
    /\ ret'.op = "rename" /\ ret'.err = "OK" /\ ret'.name # ret'.name2
    /\ ret'.id \in DOMAIN files /\ files[ret'.id].kind = FILE_KIND_REGULAR
    /\ files[ret'.parent].kind = FILE_KIND_DIRECTORY

\* C16: after a successful rename(parent, old, new) of a regular file of
\* the directory parent with old # new, lookup(parent, old) finds nothing, lookup(parent, new) finds the
\* file with the id it had and the name new, and, when objects are addressed
\* by logical path, the object the file had before is under the new path
\* with the same content.
C16_Rename ==
    [][RenamedFile
       => /\ fs_lookup(State', ret'.parent, ret'.name) = [err |-> "OK", id |-> 0]
          /\ fs_lookup(State', ret'.parent, ret'.name2) = [err |-> "OK", id |-> ret'.id]
          /\ files'[ret'.id].name = ret'.name2
          /\ (/\ ~use_hash_as_filename /\ files[ret'.id].sha512 # EMPTY
              /\ BlobOf(State, ret'.id).err = "OK")
             => /\ BlobOf(State', ret'.id) = BlobOf(State, ret'.id)
                /\ KeyOf(State', ret'.id) # KeyOf(State, ret'.id)]_vars

\* a file with content was renamed under the policy of the logical path
C16_Witness ==
    /\ ret.op = "rename" /\ ret.err = "OK" /\ ret.name # ret.name2
    /\ ~use_hash_as_filename
    /\ ret.id \in DOMAIN files /\ files[ret.id].sha512 # EMPTY
    /\ BlobOf(State, ret.id).err = "OK"
    /\ KeyOf(State, ret.id) = ret.name2

\* the entries of a directory other than "." and ".."
Children(S, id) ==
    {i \in 1..Len(S.dirent) :
        S.dirent[i].directory_file_id = id /\ S.dirent[i].name \notin DotNames}

\* C17: rmdir of a directory that holds an entry other than "." and ".."
\* fails with ENOTEMPTY and changes nothing; rmdir of a directory that holds
\* no such entry succeeds and removes the row of the directory with its ".",
\* its ".." and the entry of its parent.
C17_Rmdir ==
    [][(/\ ret'.op = "rmdir" /\ ret'.changed
        /\ ret'.id \in DOMAIN files /\ files[ret'.id].kind = FILE_KIND_DIRECTORY)
       => /\ Children(State, ret'.id) = {}
          /\ ret'.err = "OK"
          /\ ret'.id \notin DOMAIN files'
          /\ \A i \in 1..Len(dirent') :
                dirent'[i].directory_file_id # ret'.id /\ dirent'[i].entry_file_id # ret'.id]_vars

\* the last call was a successful mkdir
MkdirDone == ret.op = "mkdir" /\ ret.err = "OK"

\* the row of the new directory, and the listing of the new directory
NewDirectory ==
    /\ ret.id \in DOMAIN files
    /\ files[ret.id].kind = FILE_KIND_DIRECTORY /\ files[ret.id].name = ret.name
    /\ LET own == fs_readdir(State, ret.id, 0)
       IN  /\ Len(own) = 2
           /\ \E i \in 1..2 : own[i].name = DOT /\ own[i].entry_file_id = ret.id
           /\ \E i \in 1..2 : own[i].name = DOTDOT /\ own[i].entry_file_id = ret.parent

\* the listing of the parent from the offset holds the entry of the new name
ListedFrom(offset) ==
    LET listing == fs_readdir(State, ret.parent, offset)
    IN  \E i \in 1..Len(listing) :
            listing[i].name = ret.name /\ listing[i].entry_file_id = ret.id

KeyLengths ==
    /\ ret.op = "serialize" => Len(ret.obs.text) = 100
    /\ (ret.op = "deserialize" /\ ret.err = "OK")
       => /\ Len(ret.obs.text) = 100
          /\ LET parts == split(ret.obs.text, ":")
             IN  /\ Len(parts) = 3
                 /\ Len(parts[1]) = 64 /\ Len(parts[2]) = 24 /\ Len(parts[3]) = 10

C20_EncryptRoundTrip ==
    ret.op = "decrypt"
    => IF ret.obs.change \in {"none", "text"}
       THEN ret.err = "OK" /\ ret.obs.data = Plain(ret.obs.content)
       ELSE ret.err # "OK" /\ ret.obs.data = Plain(<< >>)

\* a content of two bytes came back through the text of its key
C20_Witness ==
    /\ ret.op = "decrypt" /\ ret.obs.change = "text" /\ ret.err = "OK"
    /\ Len(ret.obs.content) = 2 /\ ret.obs.data.msg = ret.obs.content
    /\ ret.obs.ciphertext.enc = "aes"
    /\ ret.obs.key.aead = SubSeq(Sha512Text(ret.obs.content), 1, 10)

\* a changed AAD made decrypt fail
C20_WitnessChanged ==
    ret.op = "decrypt" /\ ret.obs.change = "aad" /\ ret.err # "OK"

\* the get of the file's object from the store with the id
GetFrom(id) ==
    Store_call(State, StoreOf(stores, id),
               CallAt([ReplCall(Plain(<< >>), PathA, NoDraws, NoFails) EXCEPT !.op = "get"],
                      id, ret.obs.file))

\* C13: after a successful put through the replication wrapper, the get of
\* the object with the info that was copied back to the File returns the
\* content of the put from the primary and from every replica, whatever the
\* wrappers of the stores are.
C13_ReplicasReadSame ==
    (ret.op = "put" /\ ret.err = "OK")
    => \A id \in 0..NReplicas :
           GetFrom(id).err = "OK" /\ GetFrom(id).data = ret.obs.content

\* a put of two bytes was read back from the primary and from every replica
C13_Witness ==
    /\ ret.op = "put" /\ ret.err = "OK" /\ Len(ret.obs.content.msg) = 2
    /\ \A id \in 0..NReplicas : GetFrom(id).data = ret.obs.content

\* the ids of the stores whose blob directory fails the call
Failing(fails) == {id \in 0..NReplicas : fails[id + 1]}

\* C14: put, remove, rename and nuke are handed to the primary first and
\* then to the replicas in their declared order, every store after the one
\* before it has returned; the first store that fails ends the call: no
\* later replica is touched (its blobs stay as they were) and the error of
\* that store is returned; a call without error was handed to all stores.
\* get is handed to the primary only and changes no store.
C14_ReplicationOrder ==
    [][ret'.op \in {"put", "remove", "rename", "nuke", "get"}
       => LET touched == ret'.obs.touched
              n == Len(ret'.obs.touched)
              fails == ret'.obs.fails
          IN  /\ n >= 1
              /\ \A i \in 1..n : touched[i] = i - 1
              /\ ret'.op = "get"
                 => /\ n = 1 /\ stores' = stores
                    /\ ret'.err = GetFrom(0).err \/ (fails[1] /\ ret'.err = IoError(0))
              /\ (ret'.op # "get" /\ ret'.err = "OK")
                 => n = NReplicas + 1 /\ Failing(fails) = {}
              /\ ret'.err # "OK"
                 => /\ \A id \in n..NReplicas : StoreOf(stores', id) = StoreOf(stores, id)
                    /\ \A id \in Failing(fails) : n - 1 <= id
                    /\ fails[n] => ret'.err = IoError(n - 1)
              /\ \A id \in Failing(fails) : ret'.err # "OK"]_vars

\* a put that the first replica failed: the primary has the object, the second
\* replica was not touched, and the error of the first replica came back
C14_Witness ==
    /\ ret.op = "put" /\ ret.err = IoError(1)
    /\ ret.obs.touched = <<0, 1>>
    /\ ret.obs.fails = <<FALSE, TRUE, TRUE>>
    /\ stores.primary.blobs # << >>
    /\ stores.replicas[2].blobs = << >>

\* a cleanup issued now, the backend serving every request it is given
LaterCleanup(ord) == fs_cleanup(State, ord)

\* C21: a cleanup that failed leaves pending_remove such that a later cleanup,
\* with the backend healthy, succeeds and leaves pending_remove empty
C21_CleanupRecovers ==
    pending_remove # {} =>
        \A ord \in Orders(pending_remove) :
            /\ LaterCleanup(ord).err = "OK"
            /\ LaterCleanup(ord).S.pending_remove = {}

\* the final component of a key
FinalComponent(path) ==
    LET slashes == {i \in 1..Len(path) : path[i] = "/"}
        last == IF slashes = {} THEN 0 ELSE CHOOSE i \in slashes : \A j \in slashes : j <= i
    IN  SubSeq(path, last + 1, Len(path))

\* the name that the nonce of the File's encryption_key gives
NonceName == hex_encode(FileKey_deserialize(ret.obs.file.encryption_key).key.nonce)
                \o <<".", "e", "n", "c">>

\* a put without error under use_hash_as_filename to a store that encrypts
EncryptedPut ==
    /\ ret.op = "put" /\ ret.err = "OK" /\ use_hash_as_filename
    /\ stores.primary.wrapper = "aes"
    /\ \A i \in 1..NReplicas : stores.replicas[i].wrapper # "aes"

\* C22: with use_hash_as_filename and an encryption key, the blob of a written
\* file is stored under a key whose final component is hex(nonce) + ".enc" for
\* the nonce of the File's encryption_key, that key is not the ".dat" key of
\* the SHA-512 prefix, and the get of the file returns the written content
C22_EncryptedKeyName ==
    EncryptedPut =>
        /\ \E key \in DOMAIN stores.primary.blobs :
                /\ FinalComponent(key) = NonceName
                /\ key # path_of(State, ret.obs.file)
        /\ GetFrom(0).err = "OK" /\ GetFrom(0).data = ret.obs.content

\* the buffer that write(offset, data) is to leave of the buffer B
Written(B, offset, data) ==
    [i \in 1..(IF Len(B) > offset + Len(data) THEN Len(B) ELSE offset + Len(data)) |->
        IF i > offset /\ i <= offset + Len(data) THEN data[i - offset]
        ELSE IF i <= Len(B) THEN B[i] ELSE 0]

\* C23: write(offset, data) on a session whose buffer B was not read through
\* leaves the buffer of length max(len(B), offset + len(data)) with data at
\* [offset, offset + len(data)), every other byte of B kept and the grown
\* positions below offset zero, sets modified and returns len(data)
C23_SessionWrite ==
    [][\A id \in DOMAIN cache :
          (/\ ret'.op = "write" /\ ret'.err = "OK" /\ ret'.changed /\ ret'.id = id
           /\ ~cache[id].retrieved)
          => /\ cache'[id].content = Written(cache[id].content, ret'.aux[1], ret'.aux[2])
             /\ cache'[id].modified
             /\ ret'.obs.len = Len(ret'.aux[2])]_vars

\* the bytes of a buffer that read(offset, size) is to return
Slice(buffer, offset, size) ==
    IF offset >= Len(buffer) THEN << >>
    ELSE SubSeq(buffer, offset + 1, offset + Min(size, Len(buffer) - offset))

\* C24: on a read-write session a read after a write returns the bytes of the
\* buffer that the writes produced and leaves that buffer as it is (it is the
\* content that the close stores); nothing is fetched again from the backend
C24_ReadAfterWrite ==
    [][\A id \in DOMAIN cache :
          (/\ ret'.op = "read" /\ ret'.err = "OK" /\ ret'.obs.id = id
           /\ BitAnd(cache[id].mode, 3) = O_RDWR /\ cache[id].modified)
          => /\ ret'.obs.data = Slice(cache[id].content, ret'.obs.offset, ret'.obs.size)
             /\ cache'[id].content = cache[id].content]_vars

\* the stored content of a file
StoredContent(id) ==
    IF files[id].sha512 = EMPTY THEN << >>
    ELSE FsGet(State, ObjInfo_new(files[id], get_file_path(State, id).path)).data

\* read_all of the file now, the cleanup taking the scheduled objects in the order ord
ReadAllNow(id, ord) == fs_read_all(State, id, ord)

\* C25: read(offset, buf) returns min(len(buf), len(buffer) - offset) bytes
\* equal to buffer[offset ..], and no byte when offset >= len(buffer); for a
\* File with empty sha512 the buffer is empty.  The loop of read_all comes to
\* its end, and a read_all without error returns the whole stored content.
C25_SessionRead ==
    /\ [][\A id \in DOMAIN cache' :
            (ret'.op = "read" /\ ret'.err = "OK" /\ ret'.obs.id = id)
            => /\ ret'.obs.data = Slice(cache'[id].content, ret'.obs.offset, ret'.obs.size)
               /\ id \in DOMAIN files /\ files[id].sha512 = EMPTY
                    => cache'[id].content = << >>]_vars
    /\ [](\A id \in DOMAIN files : \A ord \in Orders(pending_remove) :
            /\ ReadAllNow(id, ord).err # "HANG"
            /\ ReadAllNow(id, ord).err = "OK" => ReadAllNow(id, ord).data = StoredContent(id))

\* a read at offset 1 for two bytes of a buffer of two bytes returned the last one
C25_Witness ==
    /\ ret.op = "read" /\ ret.err = "OK" /\ ret.obs.offset = 1 /\ ret.obs.size = MaxOffset
    /\ ret.obs.id \in DOMAIN cache /\ Len(cache[ret.obs.id].content) = 2
    /\ ret.obs.data = <<2>>

\* the entries that point to the file, in the state S
EntriesTo(S, id) == {S.dirent[i] : i \in {j \in 1..Len(S.dirent) : S.dirent[j].entry_file_id = id}}

\* the call was refused and left the file, its entries and its object alone
Refused(r, id) ==
    /\ r.err # "OK"
    /\ HasFile(r.S, id) /\ r.S.files[id] = files[id]
    /\ EntriesTo(r.S, id) = EntriesTo(State, id)
    /\ \A info \in InfoOf(id) :
            /\ info \in r.S.pending_remove => info \in pending_remove
            /\ FsGet(r.S, info) = FsGet(State, info)
            /\ \A key \in DOMAIN r.S.blobs : key \in DOMAIN blobs

\* the files that have a session, under the names that lead to them
BusyNames == {e \in ArgIds \X Names : TargetOf(e[1], e[2]) \in DOMAIN cache \cap DOMAIN files}

\* C26: unlink, rename and move_file of a File that has an open session fail
\* and leave the File row and its directory entries as they are, do not add
\* its object to pending_remove and move no blob: the object of the File is
\* where it was and no object has a new key
C26_BusyRefused ==
    \A e \in BusyNames :
        LET id == TargetOf(e[1], e[2])
        IN  /\ \A ord \in Orders(pending_remove \cup InfoOf(id)) :
                    Refused(fs_unlink(State, e[1], e[2], ord), id)
            /\ \A new_name \in CheckedNames :
                    \A ord \in Orders(pending_remove \cup InfoOf(TargetOf(e[1], new_name))),
                       dir_there \in DirThere(get_file_path(State, id).path) :
                        Refused(fs_rename(State, e[1], e[2], new_name, ord, dir_there), id)
            /\ \A new_parent \in ArgIds, new_name \in Names :
                    \A dir_there \in DirThere(get_file_path(State, e[1]).path \o SLASH \o e[2]) :
                        Refused(fs_move_file(State, e[1], e[2], new_parent, new_name,
                                             dir_there), id)

\* an unlink met a regular file that has content and a session, and failed
C26_Witness ==
    /\ ret.op = "unlink" /\ ret.err = "EIO" /\ blobs # << >> /\ pending_remove = {}
    /\ BusyNames # {}
    /\ \A e \in BusyNames : files[TargetOf(e[1], e[2])].kind = FILE_KIND_REGULAR

\* C27: the "." entry of every directory points to the directory itself, and
\* its ".." entry points to the directory that holds its parent link (the
\* ".." of the root points to the root)
C27_DotTargets ==
    \A i \in 1..Len(dirent) :
        LET id == dirent[i].directory_file_id
        IN  (id \in DOMAIN files /\ files[id].kind = FILE_KIND_DIRECTORY)
            => /\ dirent[i].name = DOT => dirent[i].entry_file_id = id
               /\ dirent[i].name = DOTDOT
                    => IF id = ROOT_DIRECTORY_ID
                       THEN dirent[i].entry_file_id = ROOT_DIRECTORY_ID
                       ELSE \A j \in ParentLinks(id) :
                                dirent[j].directory_file_id = dirent[i].entry_file_id

\* C28: the kind of every directory entry is the kind of the file that its
\* entry_file_id refers to
C28_EntryKind ==
    \A i \in 1..Len(dirent) :
        dirent[i].entry_file_id \in DOMAIN files
        => dirent[i].kind = files[dirent[i].entry_file_id].kind

\* C29: File.size of every regular file is the number of bytes that read_all
\* of the file returns
C29_SizeOfContent ==
    \A id \in DOMAIN files : \A ord \in Orders(pending_remove) :
        (files[id].kind = FILE_KIND_REGULAR /\ ReadAllNow(id, ord).err = "OK")
        => files[id].size = Len(ReadAllNow(id, ord).data)

\* the entries of the directory under the name, in the state S
Named(S, parent, name) ==
    {i \in 1..Len(S.dirent) :
        S.dirent[i].directory_file_id = parent /\ S.dirent[i].name = name}

\* the pairs of names of a directory that a rename onto an existing name takes:
\* both name a file, neither file has a session, and the entry of the new
\* name has the kind of its file
OntoExisting ==
    {e \in ArgIds \X CheckedNames \X CheckedNames :
        /\ is_validate_file_name(e[2]) /\ is_validate_file_name(e[3])
        /\ TargetOf(e[1], e[2]) \in DOMAIN files /\ TargetOf(e[1], e[3]) \in DOMAIN files
        /\ TargetOf(e[1], e[2]) \notin DOMAIN cache /\ TargetOf(e[1], e[3]) \notin DOMAIN cache
        /\ dirent[find_directory_entry(State, e[1], e[3])].kind
             = files[TargetOf(e[1], e[3])].kind}

\* what rename onto the existing name is to leave
Replaced(r, parent, old, new) ==
    IF files[new].kind = FILE_KIND_DIRECTORY
    THEN r.err = "EISDIR" /\ r.S = State
    ELSE /\ r.err = "OK"
         /\ new \notin DOMAIN r.S.files \/ new = old
         /\ \A i \in 1..Len(r.S.dirent) : r.S.dirent[i].entry_file_id = new => new = old
         /\ InfoOf(new) \cap r.S.pending_remove = {}
         /\ \A info \in InfoOf(new) :
                is_in_use(r.S, info, use_hash_as_filename) \/ FsGet(r.S, info).err # "OK"
         /\ old \in DOMAIN r.S.files

\* C30: rename onto a name that exists fails with EISDIR and changes nothing
\* when the name is that of a directory; when it is that of a regular file
\* the file is unlinked first (its row and its entry removed, its blob
\* removed by the cleanup) and the renamed file takes the name: exactly one
\* entry of the directory has the new name and it points to the renamed file
C30_RenameOnto ==
    \A e \in OntoExisting :
        LET old == TargetOf(e[1], e[2])
            new == TargetOf(e[1], e[3])
        IN  \A ord \in Orders(pending_remove \cup InfoOf(new)),
               dir_there \in DirThere(get_file_path(State, old).path) :
                LET r == fs_rename(State, e[1], e[2], e[3], ord, dir_there)
                IN  /\ Replaced(r, e[1], old, new)
                    /\ files[new].kind = FILE_KIND_REGULAR
                        => /\ Cardinality(Named(r.S, e[1], e[3])) = 1
                           /\ \A i \in Named(r.S, e[1], e[3]) :
                                r.S.dirent[i].entry_file_id = old

\* the step is a move_file without error of the file ret'.id to a valid name
\* of a directory
Moved ==
    /\ ret'.op = "move_file" /\ ret'.err = "OK" /\ ret'.changed /\ ret'.id \in DOMAIN files
    /\ ret'.parent2 \in DOMAIN files /\ files[ret'.parent2].kind = FILE_KIND_DIRECTORY
    /\ is_validate_file_name(ret'.name2)

\* the file that the target name of the move led to, 0 when none or the moved file
Overwritten ==
    LET t == TargetOf(ret'.parent2, ret'.name2)
    IN  IF t = ret'.id \/ t \notin DOMAIN files THEN 0 ELSE t

\* C31: after a move_file(parent, old, new_parent, new) without error,
\* lookup(parent, old) finds nothing, lookup(new_parent, new) finds the file
\* with the id it had and the name new, a file that was at (new_parent, new)
\* is gone and so is its blob (no object is left under its key, unless the
\* key is that of a file that exists), and the content of the moved file is
\* the one it had
C31_MoveFile ==
    [][Moved
       => /\ fs_lookup(State', ret'.parent, ret'.name).id = 0
          /\ fs_lookup(State', ret'.parent2, ret'.name2) = [err |-> "OK", id |-> ret'.id]
          /\ ret'.id \in DOMAIN files' /\ files'[ret'.id].name = ret'.name2
          /\ Overwritten # 0
                => /\ Overwritten \notin DOMAIN files'
                   /\ files[Overwritten].sha512 # EMPTY
                        => \/ KeyOf(State, Overwritten) \notin DOMAIN blobs'
                           \/ Sharing(State', KeyOf(State, Overwritten)) # {}
          /\ (files[ret'.id].sha512 # EMPTY /\ BlobOf(State, ret'.id).err = "OK")
                => BlobOf(State', ret'.id) = BlobOf(State, ret'.id)]_vars

\* the key of the info under the prefix of the backend
Prefixed(info) ==
    IF ret.obs.backend = "s3" /\ trim_matches(ret.obs.base) # EMPTY
    THEN trim_matches(ret.obs.base) \o SLASH \o path_of(State, info)
    ELSE path_of(State, info)

\* C32: every backend derives from an ObjInfo the key that path_of gives
\* (under its own prefix): the first 32 characters of sha512 and ".dat" under
\* use_hash_as_filename, the logical path without its leading slashes
\* otherwise; the derivation gives a key for every info, one with empty
\* sha512 included
C32_SameKey ==
    ret.op = "path"
    => /\ ret.err = "OK"
       /\ ret.obs.key = Prefixed(ret.obs.info)
       /\ (use_hash_as_filename /\ ret.obs.info.sha512 # EMPTY)
            => path_of(State, ret.obs.info)
                 = SubSeq(ret.obs.info.sha512, 1, HashPrefixLen) \o <<".", "d", "a", "t">>
       /\ ~use_hash_as_filename
            => path_of(State, ret.obs.info) = trim_start_matches(ret.obs.info.full_path)

\* the rename had no object under the key of the source, or one key for both
Degenerate ==
    LET prev == Backend_path(State, ret.obs.backend, ret.obs.base, ret.obs.info)
        new == Backend_path(State, ret.obs.backend, ret.obs.base, ret.obs.new_info)
    IN  \/ prev.err # "OK" \/ prev.key \notin DOMAIN ret.obs.before
        \/ prev.key = new.key

\* C33: the rename of a backend returns without error and stores nothing
\* when no object is under the key of the source, and returns without error
\* and leaves the object as it is when both infos have the same key
C33_DegenerateRename ==
    (ret.op = "rename" /\ Degenerate) => (ret.err = "OK" /\ blobs = ret.obs.before)

\* the last call was a release whose put failed
FailedRelease == ret.op = "release" /\ ret.aux = 1 /\ ret.changed

\* the content that the backend returns for the persisted row of the file
Persisted(S, id) == FsGet(S, ObjInfo_new(S.files[id], get_file_path(S, id).path))

\* C34: when the put fails during the release of a modified session, release
\* returns the error, the row of the file keeps its sha512, size and
\* encryption_key, and a later cleanup removes no blob that the row refers to
C34_FailedFlush ==
    /\ [][FailedRelease' =>
            /\ ret'.err # "OK"
            /\ files' = files]_vars
    /\ [](FailedRelease =>
            \A ord \in Orders(pending_remove) :
                (HasFile(State, ret.id) /\ Persisted(State, ret.id).err = "OK")
                => Persisted(LaterCleanup(ord).S, ret.id) = Persisted(State, ret.id))

\* the sessions that were opened read-only, and write-only
ReadOnlySessions == {id \in DOMAIN cache : OpenFlags_from(cache[id].mode).read_only}
WriteOnlySessions == {id \in DOMAIN cache : OpenFlags_from(cache[id].mode).write_only}

\* a write to a read-only session is rejected and changes nothing
WriteRejected ==
    \A id \in ReadOnlySessions \cap DOMAIN files, data \in Datas :
        /\ fs_write(State, id, 0, data).err # "OK"
        /\ fs_write(State, id, 0, data).S = State

\* a read of a write-only session is rejected
ReadRejected ==
    \A id \in WriteOnlySessions \cap DOMAIN files : fs_read(State, id, 0, MaxLen).err # "OK"

\* the release of a read-only session stores no blob and leaves the sha512 of
\* the row
ReadOnlyRelease ==
    (ret'.op = "release" /\ ret'.changed /\ ret'.id \in ReadOnlySessions)
    => /\ \A key \in DOMAIN blobs' : key \in DOMAIN blobs /\ blobs'[key] = blobs[key]
       /\ ret'.id \in DOMAIN files /\ ret'.id \in DOMAIN files'
            => files'[ret'.id].sha512 = files[ret'.id].sha512

\* C35: a write on a session that was opened read-only is rejected and leaves
\* the buffer and the modified flag, a read on a write-only session is
\* rejected, and the release of a read-only session stores no blob and does
\* not change the sha512 of the row
C35_ReadOnlySession ==
    /\ [](WriteRejected /\ ReadRejected)
    /\ [][ReadOnlyRelease]_vars

\* the File of id 1 is the directory named "/"
RootStays(S) ==
    /\ HasFile(S, ROOT_DIRECTORY_ID)
    /\ S.files[ROOT_DIRECTORY_ID].kind = FILE_KIND_DIRECTORY
    /\ S.files[ROOT_DIRECTORY_ID].name = SLASH

\* the database that a call leaves
After(r) == IF r.err \in {"HANG", "PANIC"} THEN State ELSE r.S

\* the names given to a call: those of entries, "." and "..", and the empty one
AnyNames == AllNames \cup {EMPTY}

\* C36: the File of id 1 exists, is a directory and is named "/" after any
\* calls, and no mkdir, mknod, unlink, rmdir, rename, move_file or copy_file,
\* with any arguments, removes or renames it
C36_RootStays ==
    /\ RootStays(State)
    /\ \A parent \in ArgIds, name \in AnyNames, ord \in Orders(pending_remove) :
        /\ RootStays(After(fs_mkdir(State, parent, name)))
        /\ RootStays(After(fs_mknod(State, parent, name)))
        /\ RootStays(After(fs_unlink(State, parent, name, ord)))
        /\ RootStays(After(fs_rmdir(State, parent, name, ord)))
        /\ \A new_name \in AnyNames, dir_there \in BOOLEAN :
            /\ RootStays(After(fs_rename(State, parent, name, new_name, ord, dir_there)))
            /\ \A new_parent \in ArgIds :
                /\ RootStays(After(fs_move_file(State, parent, name, new_parent, new_name,
                                                dir_there)))
                /\ RootStays(After(fs_copy_file(State, parent, name, new_parent, new_name,
                                                ord)))

\* C37: the directory_file_id of every DirectoryEntry refers to an existing
\* File of kind DIRECTORY and its entry_file_id to an existing File: no call
\* creates an entry under a regular file or a missing parent, and no removal
\* leaves a dangling entry
C37_EntriesRefer ==
    \A i \in 1..Len(dirent) :
        /\ HasFile(State, dirent[i].directory_file_id)
        /\ files[dirent[i].directory_file_id].kind = FILE_KIND_DIRECTORY
        /\ HasFile(State, dirent[i].entry_file_id)

\* following find_parent_directory from the file reaches ROOT in at most
\* fuel steps
RECURSIVE ReachesRoot(_, _, _)
ReachesRoot(S, file_id, fuel) ==
    IF file_id = ROOT_DIRECTORY_ID THEN TRUE
    ELSE IF fuel = 0 THEN FALSE
    ELSE LET parent == find_parent_directory(S, file_id)
         IN  IF parent = 0 \/ parent = file_id THEN FALSE
             ELSE ReachesRoot(S, parent, fuel - 1)

\* C38: the parent links form a tree rooted at ROOT: following
\* find_parent_directory from any existing File reaches ROOT in finitely many
\* steps, and get_file_path ends for every existing File
C38_TreeRootedAtRoot ==
    \A id \in DOMAIN files :
        /\ ReachesRoot(State, id, Cardinality(DOMAIN files))
        /\ get_file_path(State, id).err # "HANG"

\* the paths of no entry chain: a name that no entry of the root has
NoChainPaths == {SLASH \o name : name \in {n \in Names : find_directory_entry(State, ROOT_DIRECTORY_ID, n) = 0}}

\* C39: for every existing File f, get_file_by_path(get_file_path(f.id)) is the
\* File of id f.id, and get_file_by_path of a path with no matching entry
\* chain is None
C39_PathRoundTrip ==
    /\ \A id \in DOMAIN files :
        get_file_path(State, id).err = "OK"
        => get_file_by_path(State, get_file_path(State, id).path) = id
    /\ \A path \in NoChainPaths : get_file_by_path(State, path) = 0

\* the file of the failed release is not busy: an open of it is accepted, and
\* remove and rename do not find its session
NotBusy(id) ==
    /\ id \notin DOMAIN cache
    /\ HasFile(State, id) =>
        /\ \A flags \in {O_RDONLY, O_WRONLY, O_RDWR} : fs_open(State, id, flags).err = "OK"
        /\ St_remove(State, id, files[id], get_file_path(State, id).path).err = "OK"
        /\ St_rename(State, id, files[id], get_file_path(State, id).path,
                     get_file_path(State, id).path, FALSE).err = "OK"

\* C40: when the final close of a session fails because the put fails, the
\* session is removed from the cache all the same, so that a later open,
\* unlink or rename of the file is not refused on account of it; and no
\* session stays in the cache with a count of 0 or less
C40_NeverBusy ==
    /\ [](FailedRelease => NotBusy(ret.id))
    /\ [](\A id \in DOMAIN cache : cache[id].count > 0)

\* a release failed at the put, and the file of the session exists
C40_Witness ==
    /\ FailedRelease /\ ret.err = "EIO"
    /\ HasFile(State, ret.id) /\ files[ret.id].kind = FILE_KIND_REGULAR
    /\ ret.id \notin DOMAIN cache

C10_Witness ==
    /\ ret.op = "mknod" /\ ret.obs = TRUE /\ ret.err = "EEXIST"
    /\ \E i \in 1..Len(dirent) : dirent[i].name = NameA
====
